---- MODULE Spec2Model ----
(***************************************************************************)
(* RenderTools: POV-Ray scene generation for layered photonic devices and  *)
(* field isosurfaces.  The module models                                   *)
(*   - create_mesh2          (util_iso.py / povray_iso.py)                 *)
(*   - create_device_layer   (util_shapes.py) with check_for_false_silos,  *)
(*     the write_*_feature functions and update_device_dims, and the       *)
(*     in-line layer tagging of rendering.write_pov                        *)
(*   - add_slab              (util_shapes.py)                              *)
(*   - process_field_array   (util_field.py / povray_iso.py)               *)
(*   - slice_isosurface      (povray_iso.py / util_iso.py)                 *)
(*   - render_povray, write_pov_file (util_pov.py / povray_pov.py)         *)
(*   - create_device         (util_shapes.py) and the text it returns      *)
(*   - color_and_finish      (util_shapes.py / util_pov.py)                *)
(*   - guess_camera, write_header_and_camera (povray_pov.py / util_pov.py) *)
(* Each function has its own specification (SpecMesh, SpecLayer, SpecSlab, *)
(* SpecField, SpecSlice, SpecRender, SpecPovFile, SpecDevice, SpecFinish,  *)
(* SpecCamera); the variables of the other functions stay at their idle    *)
(* values.                                                                 *)
(*                                                                         *)
(* Numbers.  Python floats are modelled as exact fixed-point integers.     *)
(* Field values and cutoffs are counted in units of 1/Scale, so that the   *)
(* products 1.0001*x and 0.9999*x of create_mesh2 are exact for every      *)
(* input that is a whole number.                                           *)
(***************************************************************************)
EXTENDS Integers, Sequences, FiniteSets, TLC

VARIABLES
    \* ---- create_mesh2 ----
    pc_mesh,        \* position in create_mesh2
    field_min,      \* np.amin(field)
    field_max,      \* np.amax(field)
    caller_cutoffs, \* the list object the caller passed (mutated in place)
    cutoffs0,       \* the caller's list as it was at the call
    cutoffs,        \* the local name `cutoffs` after sorted(set(cutoffs))
    cmap_limits,    \* the cmap_limits list
    mesh,           \* the mesh string, as a sequence of tokens
    mc_levels,      \* levels handed to marching_cubes_lewiner, in order
    mesh_i,         \* loop index of the loop over cutoffs
    \* ---- create_device_layer / write_pov layer tagging ----
    impl,           \* "util_shapes" (create_device_layer) or "rendering" (write_pov)
    pc_layer,       \* position in the layer code
    shapes,         \* the layer's shapes, shapes[k + 1] is shapes[str(k)]
    thickness,      \* the layer's thickness
    use_default_colors,
    n_colors,       \* len(custom_colors)
    add_lines,
    device_dims,    \* the device_dims list [x, y, z]
    dims0,          \* device_dims as it was at the call
    c,              \* colour counter
    layer_type,     \* the layer_type list
    k_layer,        \* loop index k of the loop over layer_type
    device_layer,   \* the device_layer string, as a sequence of features
    \* ---- add_slab ----
    pc_slab,
    lattice_vecs,   \* [[a.x, a.y], [b.x, b.y]]
    slab_thickness,
    slab_dims,      \* the device_dims argument
    slab_type,      \* the layer_type argument
    slab_ends,      \* end
    slab_points,    \* points, after the shift by halfwidth
    slab_translate, \* [x_translate, y_translate, z_translate]
    slab_halfwidth, \* the returned halfwidth
    \* ---- process_field_array ----
    pc_field,
    field_array,    \* the caller's array
    field_array0,   \* the caller's array as it was at the call
    center,
    field_ret,      \* the returned tuple (field_array, nx, ny, nz)
    field_err,      \* the exception raised, "" if none
    \* ---- slice_isosurface ----
    slice_impl,     \* "util_iso" (box) or "povray_iso" (prism)
    pc_slice,       \* "idle", "call", "returned" or "AssertionError"
    slice_mesh,     \* the mesh argument, a sequence of tokens
    corners,        \* <<corner1, corner2>> (util_iso)
    slice_n,        \* n = [nx, ny, nz] (povray_iso)
    cut_is_default, \* TRUE when the caller leaves cut_at to its default
    cut_at,         \* the cut_at list object, in thousandths
    cut_at0,        \* that list as it was before the first call
    subtract_box,
    slice_rets,     \* the outcome of every call made so far, in order
    \* ---- render_pov ----
    render_impl,    \* "povray_pov" or "util_pov"
    pc_render,      \* position in render_pov
    pov_name,       \* the pov_name argument, a sequence of characters
    image_name,     \* the local name image_name, a sequence of characters
    image_name0,    \* the image_name argument
    render_opts,    \* the other arguments of the call
    use_type,       \* the format letter, "" before it is chosen
    ini_file,       \* the .ini file written: its name and its lines
    command,        \* the command string, as a sequence of words
    shell_log,      \* the programs the shell has run, with exit status
    reported,       \* the command printed on the terminal, <<>> before
    \* ---- write_pov_file ----
    pc_povfile,     \* "idle", "call" or "returned"
    povfile_name,   \* the pov_name argument
    pov_string,     \* the pov_string argument, a sequence of lines
    files,          \* the files of the working directory, by name
    files0,         \* the files as they were at the call
    \* ---- create_device ----
    pc_device,      \* position in create_device
    dev_layers,     \* statepoint.dev_layers, dev_layers[i + 1] is layer i
    dev_lattice,    \* lattice_vecs = [[a.x, a.y], [b.x, b.y]]
    num_UC,         \* <<num_UC_x, num_UC_y>>
    coating_layers, \* the thicknesses of the coating layers
    sub_thickness,  \* statepoint.sub_layer.thickness
    dev_colors,     \* use_default_colors, len(orig_custom_colors), len(custom_colors)
    dev_add_lines,  \* the add_lines argument
    dev_i,          \* loop index i of the loop over the layers
    dev_c,          \* the colour counter c of create_device
    dev_dims,       \* device_dims of create_device
    background,     \* the local name background, "unbound" before it is set
    layer_ends,     \* for every layer processed: its index and its end list
    coating_dims,   \* coating_dims, in quarters
    device,         \* the device string, as a sequence of parts
    \* ---- color_and_finish ----
    pc_color,       \* "idle" or "ready"
    color_dict,     \* the default_color_dict object, by material
    color_dict0,    \* default_color_dict as create_device defines it
    custom_color,   \* the custom_color list object of the caller
    custom_color0,  \* that list as it was before the first call
    color_rets,     \* every call made so far: arguments and outcome
    \* ---- guess_camera / write_header_and_camera ----
    cam_impl,       \* "povray_pov" or "util_pov"
    pc_cam,         \* "idle", "call" or "returned"
    cam_entry,      \* the function the caller calls
    cam_dims,       \* the caller's device_dims list object
    cam_dims0,      \* that list as it was before the first call
    cam_args,       \* the other arguments of the call
    cam_rets        \* the outcome of every call made so far, in order

mesh_vars == <<pc_mesh, field_min, field_max, caller_cutoffs, cutoffs0,
               cutoffs, cmap_limits, mesh, mc_levels, mesh_i>>

layer_vars == <<impl, pc_layer, shapes, thickness, use_default_colors,
                n_colors, add_lines, device_dims, dims0, c, layer_type,
                k_layer, device_layer>>

slab_vars == <<pc_slab, lattice_vecs, slab_thickness, slab_dims, slab_type,
               slab_ends, slab_points, slab_translate, slab_halfwidth>>

field_vars == <<pc_field, field_array, field_array0, center, field_ret,
                field_err>>

slice_vars == <<slice_impl, pc_slice, slice_mesh, corners, slice_n,
                cut_is_default, cut_at, cut_at0, subtract_box, slice_rets>>

render_vars == <<render_impl, pc_render, pov_name, image_name, image_name0,
                 render_opts, use_type, ini_file, command, shell_log,
                 reported>>

povfile_vars == <<pc_povfile, povfile_name, pov_string, files, files0>>

device_vars == <<pc_device, dev_layers, dev_lattice, num_UC, coating_layers,
                 sub_thickness, dev_colors, dev_add_lines, dev_i, dev_c,
                 dev_dims, background, layer_ends, coating_dims, device>>

color_vars == <<pc_color, color_dict, color_dict0, custom_color,
                custom_color0, color_rets>>

camera_vars == <<cam_impl, pc_cam, cam_entry, cam_dims, cam_dims0, cam_args,
                 cam_rets>>

vars == <<mesh_vars, layer_vars, slab_vars, field_vars, slice_vars,
          render_vars, povfile_vars, device_vars, color_vars, camera_vars>>

\* what each function leaves alone: the state of all the other functions
not_mesh_vars == <<layer_vars, slab_vars, field_vars, slice_vars, render_vars,
    povfile_vars, device_vars,
    color_vars, camera_vars>>
not_layer_vars == <<mesh_vars, slab_vars, field_vars, slice_vars, render_vars,
    povfile_vars, device_vars,
    color_vars, camera_vars>>
not_slab_vars == <<mesh_vars, layer_vars, field_vars, slice_vars, render_vars,
    povfile_vars, device_vars,
    color_vars, camera_vars>>
not_field_vars == <<mesh_vars, layer_vars, slab_vars, slice_vars, render_vars,
    povfile_vars, device_vars,
    color_vars, camera_vars>>
not_slice_vars == <<mesh_vars, layer_vars, slab_vars, field_vars, render_vars,
    povfile_vars, device_vars,
    color_vars, camera_vars>>
not_render_vars == <<mesh_vars, layer_vars, slab_vars, field_vars, slice_vars,
    povfile_vars, device_vars,
    color_vars, camera_vars>>
not_povfile_vars == <<mesh_vars, layer_vars, slab_vars, field_vars, slice_vars,
    render_vars, device_vars,
    color_vars, camera_vars>>
not_color_vars == <<mesh_vars, layer_vars, slab_vars, field_vars, slice_vars,
    render_vars, povfile_vars, device_vars, camera_vars>>
not_camera_vars == <<mesh_vars, layer_vars, slab_vars, field_vars, slice_vars,
    render_vars, povfile_vars, device_vars, color_vars>>
\* create_device calls create_device_layer: it shares the layer state
not_device_vars == <<mesh_vars, slab_vars, field_vars, slice_vars, render_vars,
    povfile_vars,
    color_vars, camera_vars>>

-----------------------------------------------------------------------------
(* Bounds *)

MaxCutoffs == 3

\* field extrema and cutoffs are drawn from the whole numbers -MaxNeg..MaxVal
MaxNeg == 2
MaxVal == 3

\* most shapes in one layer
MaxShapes == 3

-----------------------------------------------------------------------------
(* create_mesh2 *)

\* denominator of the literals 1.0001 and 0.9999
Scale == 10000
LowFactor == 10001
HighFactor == 9999

\* x * (f/Scale), exact on the inputs used
Times(x, f) == (x * f) \div Scale

Real(n) == n * Scale

InputVals == { Real(n) : n \in (0 - MaxNeg)..MaxVal }

\* the lower test compares with the wrong extremum
ClampOneAll(cut, fmin, fmax) ==
    IF cut <= fmax THEN Times(fmin, LowFactor) ELSE Times(fmax, HighFactor)

\* one pass of the loop body, lines 60-63
ClampOne(cut, fmin, fmax) ==
    IF cut <= fmin THEN Times(fmin, LowFactor)
    ELSE IF cut >= fmax THEN Times(fmax, HighFactor)
    ELSE cut

\* set(cutoffs)
ToSet(s) == { s[i] : i \in DOMAIN s }

RECURSIVE SortedAsc(_)
SortedAsc(S) ==
    IF S = {} THEN <<>>
    ELSE LET m == CHOOSE x \in S : \A y \in S : x <= y
         IN  <<m>> \o SortedAsc(S \ {m})

RECURSIVE SortedList(_)
SortedList(s) ==
    IF s = <<>> THEN <<>>
    ELSE LET k == CHOOSE i \in DOMAIN s : \A j \in DOMAIN s : s[i] <= s[j]
         IN  <<s[k]>> \o SortedList([i \in 1..(Len(s) - 1) |->
                                        IF i < k THEN s[i] ELSE s[i + 1]])

\* sorted(cutoffs) without set(): duplicates survive
SortedKeepDuplicates(s) == SortedList(s)

\* sorted(set(cutoffs)), line 66
SortedSet(s) == SortedAsc(ToSet(s))

StrLimit == [isstr |-> TRUE, v |-> 0]
NumLimit(x) == [isstr |-> FALSE, v |-> x]

SeqMin(s) == CHOOSE x \in ToSet(s) : \A y \in ToSet(s) : x <= y
SeqMax(s) == CHOOSE x \in ToSet(s) : \A y \in ToSet(s) : x >= y

\* marching_cubes_lewiner(field, level): the library rejects a level outside
\* the data range; at the extrema themselves the source states that it throws
\* while the library's range test is inclusive, so both outcomes are kept.
MarchingCubesOutcomes(level, fmin, fmax) ==
    IF level < fmin \/ level > fmax THEN {"ValueError"}
    ELSE IF level = fmin \/ level = fmax THEN {"ok", "ValueError"}
    ELSE {"ok"}

Tok(t, v, r) == [tok |-> t, v |-> v, rank |-> r]

\* len(cutoffs) > 1, lines 91 and 145
UnionNeeded(cs) == Len(cs) > 1

IdleMesh ==
    /\ pc_mesh = "idle"
    /\ field_min = 0
    /\ field_max = 0
    /\ caller_cutoffs = <<>>
    /\ cutoffs0 = <<>>
    /\ cutoffs = <<>>
    /\ cmap_limits = <<StrLimit, StrLimit>>
    /\ mesh = <<>>
    /\ mc_levels = <<>>
    /\ mesh_i = 0

InitMeshCall ==
    /\ pc_mesh = "clamp"
    /\ field_min \in InputVals
    /\ field_max \in InputVals
    /\ field_min <= field_max
    /\ \E n \in 1..MaxCutoffs : caller_cutoffs \in [1..n -> InputVals]
    /\ cutoffs0 = caller_cutoffs
    /\ cutoffs = <<>>
    /\ cmap_limits \in {<<StrLimit, StrLimit>>,
                        <<NumLimit(Real(0)), NumLimit(Real(1))>>}
    /\ mesh = <<>>
    /\ mc_levels = <<>>
    /\ mesh_i = 0

\* lines 59-63: the loop over the caller's list, in place
Clamp ==
    /\ pc_mesh = "clamp"
    /\ caller_cutoffs' = [i \in DOMAIN caller_cutoffs |->
                            ClampOne(caller_cutoffs[i], field_min, field_max)]
    /\ pc_mesh' = "sort"
    /\ UNCHANGED <<field_min, field_max, cutoffs0, cutoffs, cmap_limits, mesh,
                   mc_levels, mesh_i>>
    /\ UNCHANGED not_mesh_vars

\* lines 66-76: rebind cutoffs, fill in the colormap limits
SortDedup ==
    /\ pc_mesh = "sort"
    /\ cutoffs' = SortedSet(caller_cutoffs)
    /\ cmap_limits' =
         <<IF cmap_limits[1].isstr THEN NumLimit(SeqMin(cutoffs'))
                                   ELSE cmap_limits[1],
           IF cmap_limits[2].isstr THEN NumLimit(SeqMax(cutoffs'))
                                   ELSE cmap_limits[2]>>
    /\ pc_mesh' = "open"
    /\ UNCHANGED <<field_min, field_max, caller_cutoffs, cutoffs0, mesh,
                   mc_levels, mesh_i>>
    /\ UNCHANGED not_mesh_vars

\* lines 87-92
OpenUnion ==
    /\ pc_mesh = "open"
    /\ mesh' = IF UnionNeeded(cutoffs)
               THEN <<Tok("union", 0, 0)>> ELSE <<>>
    /\ mesh_i' = 1
    /\ pc_mesh' = "loop"
    /\ UNCHANGED <<field_min, field_max, caller_cutoffs, cutoffs0, cutoffs,
                   cmap_limits, mc_levels>>
    /\ UNCHANGED not_mesh_vars

\* lines 95-142: one iteration of the loop over cutoffs
IsoStep ==
    /\ pc_mesh = "loop"
    /\ mesh_i <= Len(cutoffs)
    /\ mc_levels' = Append(mc_levels, cutoffs[mesh_i])
    /\ \E out \in MarchingCubesOutcomes(cutoffs[mesh_i], field_min, field_max) :
         IF out = "ok"
         THEN /\ mesh' = Append(mesh, Tok("mesh2", cutoffs[mesh_i], mesh_i - 1))
              /\ mesh_i' = mesh_i + 1
              /\ pc_mesh' = "loop"
         ELSE /\ pc_mesh' = "error"
              /\ UNCHANGED <<mesh, mesh_i>>
    /\ UNCHANGED <<field_min, field_max, caller_cutoffs, cutoffs0, cutoffs,
                   cmap_limits>>
    /\ UNCHANGED not_mesh_vars

\* lines 144-148
CloseUnion ==
    /\ pc_mesh = "loop"
    /\ mesh_i > Len(cutoffs)
    /\ mesh' = IF UnionNeeded(cutoffs)
               THEN Append(mesh, Tok("end_union", 0, 0)) ELSE mesh
    /\ pc_mesh' = "done"
    /\ UNCHANGED <<field_min, field_max, caller_cutoffs, cutoffs0, cutoffs,
                   cmap_limits, mc_levels, mesh_i>>
    /\ UNCHANGED not_mesh_vars

-----------------------------------------------------------------------------
(* create_device_layer and its helpers (util_shapes.py) *)

\* a record of the device description: shapes[str(k)]
HW(x, y) == [rep |-> "dict", x |-> x, y |-> y]
NoHW == [rep |-> "none", x |-> 0, y |-> 0]

Circle(mat, r) ==
    [material |-> mat, shape |-> "circle", radius |-> r, hw |-> NoHW,
     vertices |-> <<>>]
Ellipse(mat, x, y) ==
    [material |-> mat, shape |-> "ellipse", radius |-> 0, hw |-> HW(x, y),
     vertices |-> <<>>]
Rectangle(mat, x, y) ==
    [material |-> mat, shape |-> "rectangle", radius |-> 0, hw |-> HW(x, y),
     vertices |-> <<>>]
Polygon(mat, vs) ==
    [material |-> mat, shape |-> "polygon", radius |-> 0, hw |-> NoHW,
     vertices |-> vs]
Other(mat, kind) ==
    [material |-> mat, shape |-> kind, radius |-> 0, hw |-> NoHW,
     vertices |-> <<>>]

Triangle3 == << <<0 - 1, 0>>, <<2, 0>>, <<0, 3>> >>
Segment2 == << <<0, 0>>, <<1, 1>> >>

SolidShapes ==
    { Circle("Si", 2), Ellipse("Si", 1, 3), Rectangle("Si", 3, 1),
      Polygon("Si", Triangle3), Other("Si", "triangle") }

VacuumShapes ==
    { Circle("Vacuum", 1), Circle("Vacuum", 0), Ellipse("Vacuum", 0, 0),
      Rectangle("vacuum", 2, 1), Polygon("Vacuum", Segment2),
      Polygon("Vacuum", Triangle3) }

ShapeDomain == SolidShapes \cup VacuumShapes

\* the keys of shape_vars that a shape of each kind carries
ShapeVarKeys(sh) ==
    CASE sh.shape = "circle" -> {"center", "radius"}
      [] sh.shape \in {"ellipse", "rectangle"} -> {"center", "halfwidths", "angle"}
      [] sh.shape = "polygon" -> {"center", "angle", "vertices"}
      [] OTHER -> {"center"}

\* shapes[str(k)], k counted from 0
At(shs, k) == shs[k + 1]

Max(a, b) == IF a >= b THEN a ELSE b
Min(a, b) == IF a <= b THEN a ELSE b
Abs(a) == IF a >= 0 THEN a ELSE 0 - a

\* the x and y accumulators are overwritten instead of maximised
UpdateDeviceDimsAssign(dims, new_x, new_y, new_z) ==
    <<new_x, new_y, dims[3] + new_z>>

\* the z accumulator is maximised instead of added to
UpdateDeviceDimsMaxZ(dims, new_x, new_y, new_z) ==
    <<Max(new_x, dims[1]), Max(new_y, dims[2]), Max(new_z, dims[3])>>

\* update_device_dims, lines 590-593
update_device_dims(dims, new_x, new_y, new_z) ==
    <<Max(new_x, dims[1]), Max(new_y, dims[2]), dims[3] + new_z>>

IsVacuum(sh) == sh.material \in {"Vacuum", "vacuum"}

\* lines 1198-1205 (and rendering.py 150-157)
InitialLayerType(shs) ==
    [i \in DOMAIN shs |-> IF IsVacuum(shs[i]) THEN "Vacuum" ELSE shs[i].shape]

\* has_silo
HasSilo(shs) == \E i \in DOMAIN shs : IsVacuum(shs[i])

\* `halfwidths == [0, 0]`: a dict never equals a list
HalfwidthsEqualZeroList(hw) == hw.rep = "list" /\ hw.x = 0 /\ hw.y = 0

\* the radius of the circle is not looked at
IsFalseSiloAnyCircle(sh) ==
    \/ sh.shape = "circle"
    \/ sh.shape \in {"ellipse", "rectangle"} /\ HalfwidthsEqualZeroList(sh.hw)
    \/ sh.shape = "polygon" /\ Len(sh.vertices) < 3

\* the tests of lines 918-931 on the shape after the solid
IsFalseSilo(sh) ==
    \/ sh.shape = "circle" /\ sh.radius = 0
    \/ sh.shape \in {"ellipse", "rectangle"} /\ HalfwidthsEqualZeroList(sh.hw)
    \/ sh.shape = "polygon" /\ Len(sh.vertices) < 3

\* the test on the tag of the solid itself is missing
SiloCandidateAnyFirst(lt, iii) == lt[iii + 2] = "Vacuum"

\* line 914 (and rendering.py 161), iii counted from 0
SiloCandidate(lt, iii) == lt[iii + 1] # "Vacuum" /\ lt[iii + 2] = "Vacuum"

\* check_for_false_silos: the loop of lines 913-935 from index iii on
RECURSIVE FalseSiloLoop(_, _, _)
FalseSiloLoop(shs, lt, iii) ==
    IF iii >= Len(lt) - 1 THEN lt
    ELSE IF SiloCandidate(lt, iii) /\ ~IsFalseSilo(At(shs, iii + 1))
         THEN FalseSiloLoop(shs, [lt EXCEPT ![iii + 1] = "silo"], iii + 1)
         ELSE FalseSiloLoop(shs, lt, iii + 1)

check_for_false_silos(shs, lt) == FalseSiloLoop(shs, lt, 0)

\* rendering.write_pov, lines 159-162
RECURSIVE WritePovSiloLoop(_, _)
WritePovSiloLoop(lt, iii) ==
    IF iii >= Len(lt) - 1 THEN lt
    ELSE IF SiloCandidate(lt, iii)
         THEN WritePovSiloLoop([lt EXCEPT ![iii + 1] = "silo"], iii + 1)
         ELSE WritePovSiloLoop(lt, iii + 1)

\* the keys of default_color_dict, lines 1349-1353
DefaultColorMaterials == {"subst", "Si", "SiO2"}

\* custom_colors[c] and default_color_dict[material] in the call of
\* color_and_finish: IndexError / KeyError
ColorRaises(material, udc, ncol, cc) ==
    IF udc THEN material \notin DefaultColorMaterials
    ELSE cc >= ncol

NextColor(udc, cc) == IF udc THEN cc ELSE cc + 1

\* create_torus on a list of halfwidths divides by the smaller one
TorusRaises(x, y) == Min(x, y) = 0

NoHoles == <<>>
Feature(kind, k, holes) == [feat |-> kind, k |-> k, holes |-> holes]
Failed == [err |-> TRUE, x |-> 0, y |-> 0, feat |-> Feature("none", 0, NoHoles)]
Written(x, y, f) == [err |-> FALSE, x |-> x, y |-> y, feat |-> f]

\* write_circle_feature, lines 637-660
write_circle_feature(shs, k, udc, ncol, cc, lines) ==
    LET sh == At(shs, k)
    IN  IF ColorRaises(sh.material, udc, ncol, cc) THEN Failed
        ELSE Written(sh.radius, sh.radius, Feature("circle", k, NoHoles))

\* write_ellipse_feature, lines 704-730
write_ellipse_feature(shs, k, udc, ncol, cc, lines) ==
    LET sh == At(shs, k)
    IN  IF \/ sh.hw.rep # "dict"
           \/ ColorRaises(sh.material, udc, ncol, cc)
           \/ lines /\ TorusRaises(sh.hw.x, sh.hw.y)
        THEN Failed
        ELSE Written(sh.hw.x, sh.hw.y, Feature("ellipse", k, NoHoles))

\* write_rectangle_feature, lines 774-800
write_rectangle_feature(shs, k, udc, ncol, cc, lines) ==
    LET sh == At(shs, k)
    IN  IF \/ sh.hw.rep # "dict"
           \/ ColorRaises(sh.material, udc, ncol, cc)
        THEN Failed
        ELSE Written(sh.hw.x, sh.hw.y, Feature("rectangle", k, NoHoles))

\* lines 853-871: x_max, y_max over the vertices from index i on
RECURSIVE PolygonMax(_, _, _, _)
PolygonMax(vs, i, x_max, y_max) ==
    IF i > Len(vs) THEN <<x_max, y_max>>
    ELSE PolygonMax(vs, i + 1, Max(Abs(x_max), vs[i][1]),
                    Max(Abs(y_max), vs[i][2]))

\* write_polygon_feature, lines 847-892; create_polygon reads vertices[0]
write_polygon_feature(shs, k, udc, ncol, cc, lines) ==
    LET sh == At(shs, k)
        m  == PolygonMax(sh.vertices, 1, 0, 0)
    IN  IF \/ Len(sh.vertices) = 0
           \/ ColorRaises(sh.material, udc, ncol, cc)
        THEN Failed
        ELSE Written(m[1], m[2], Feature("polygon", k, NoHoles))

\* write_silo_feature, lines 986-1055: the first (solid) shape.
\* k is rebound by the loop over the polygon's points; halfwidths, shape and
\* dims_outer are bound only in some branches.
SiloSolid(shs, k, lines) ==
    LET sh == At(shs, k)
        base == [err |-> FALSE, k |-> k, hw_bound |-> FALSE, hw |-> <<0, 0>>,
                 shape |-> "unbound", dims_inner |-> "unbound",
                 holes |-> NoHoles]
        st ==
          CASE sh.shape = "circle" ->
                 [base EXCEPT !.hw_bound = TRUE,
                              !.hw = <<sh.radius, sh.radius>>,
                              !.shape = "circle"]
            [] sh.shape \in {"ellipse", "rectangle"} ->
                 [base EXCEPT !.err = (sh.hw.rep # "dict"),
                              !.hw_bound = TRUE,
                              !.hw = <<sh.hw.x, sh.hw.y>>,
                              !.shape = sh.shape]
            [] sh.shape = "polygon" ->
                 [base EXCEPT !.err = (Len(sh.vertices) = 0),
                              !.k = IF Len(sh.vertices) = 0 THEN k
                                    ELSE Len(sh.vertices) - 1,
                              !.shape = "polygon"]
            [] OTHER -> base
        lines_raise ==
            lines /\ (\/ st.shape = "unbound"
                      \/ st.shape = "ellipse" /\ TorusRaises(st.hw[1], st.hw[2]))
    IN  [st EXCEPT !.err = (st.err \/ lines_raise)]

Hole(kind, src, ends) == [shape |-> kind, src |-> src, ends |-> ends]

\* write_silo_feature, lines 1061-1129: the loop over the holes, j from 0
RECURSIVE SiloHoles(_, _, _, _, _)
SiloHoles(shs, lt, st, j, lines) ==
    IF st.err \/ ~(j < Len(shs) /\ lt[j + 1] = "Vacuum") THEN st
    ELSE
      LET hole == At(shs, j)
          k    == st.k
          st1  ==
            CASE hole.shape = "circle" ->
                   [st EXCEPT !.shape = "circle",
                              !.dims_inner = "ok",
                              !.holes = Append(@, Hole("circle", j, "end2"))]
              [] hole.shape \in {"ellipse", "rectangle"} ->
                   \* center, halfwidths and angle are read from shapes[str(k)]
                   IF \/ k >= Len(shs)
                      \/ ~({"center", "halfwidths", "angle"}
                              \subseteq ShapeVarKeys(At(shs, k)))
                      \/ At(shs, k).hw.rep # "dict"
                   THEN [st EXCEPT !.err = TRUE]
                   ELSE [st EXCEPT
                           !.hw_bound = TRUE,
                           !.hw = <<At(shs, k).hw.x, At(shs, k).hw.y>>,
                           !.shape = hole.shape,
                           !.dims_inner =
                              IF hole.shape = "ellipse"
                                 /\ TorusRaises(At(shs, k).hw.x, At(shs, k).hw.y)
                              THEN "zero" ELSE "ok",
                           !.holes = Append(@, Hole(hole.shape, k, "end2"))]
              [] hole.shape = "polygon" ->
                   \* line 1102 evaluates the unbound name i
                   [st EXCEPT !.err = TRUE]
              [] OTHER -> st
          lines_raise ==
            lines /\ (\/ st1.shape = "unbound"
                      \/ st1.dims_inner = "unbound"
                      \/ st1.dims_inner = "zero")
          st2 == [st1 EXCEPT !.err = (st1.err \/ lines_raise)]
      IN  SiloHoles(shs, lt, st2, j + 1, lines)

\* write_silo_feature, lines 986-1146
write_silo_feature(shs, k, lt, udc, ncol, cc, lines) ==
    LET solid == SiloSolid(shs, k, lines)
        st    == SiloHoles(shs, lt, solid, solid.k + 1, lines)
    IN  IF \/ st.err
           \/ ColorRaises(At(shs, k).material, udc, ncol, cc)
           \/ ~st.hw_bound
        THEN Failed
        ELSE Written(st.hw[1], st.hw[2], Feature("silo", k, st.holes))

\* the feature written for the tag at position k, lines 1216-1255
WriteFeature(shs, k, lt, udc, ncol, cc, lines) ==
    CASE lt[k + 1] = "circle" -> write_circle_feature(shs, k, udc, ncol, cc, lines)
      [] lt[k + 1] = "silo" -> write_silo_feature(shs, k, lt, udc, ncol, cc, lines)
      [] lt[k + 1] = "ellipse" -> write_ellipse_feature(shs, k, udc, ncol, cc, lines)
      [] lt[k + 1] = "rectangle" -> write_rectangle_feature(shs, k, udc, ncol, cc, lines)
      [] lt[k + 1] = "polygon" -> write_polygon_feature(shs, k, udc, ncol, cc, lines)
      [] OTHER -> Written(0, 0, Feature("none", k, NoHoles))

WritesFeature(tag) == tag \in {"circle", "silo", "ellipse", "rectangle", "polygon"}

\* device_dims after some earlier layers of the same device
EarlierDims == { <<0, 0, 0>>, <<3, 3, 2>> }

Thicknesses == {1, 2}

ColourSettings ==
    { [udc |-> TRUE, n |-> 0], [udc |-> FALSE, n |-> 2] }

IdleLayer ==
    /\ impl = "none"
    /\ pc_layer = "idle"
    /\ shapes = <<>>
    /\ thickness = 0
    /\ use_default_colors = TRUE
    /\ n_colors = 0
    /\ add_lines = FALSE
    /\ device_dims = <<0, 0, 0>>
    /\ dims0 = <<0, 0, 0>>
    /\ c = 0
    /\ layer_type = <<>>
    /\ k_layer = 0
    /\ device_layer = <<>>

InitLayerCall ==
    /\ impl \in {"util_shapes", "rendering"}
    /\ pc_layer = "tag"
    /\ \E n \in 0..MaxShapes : shapes \in [1..n -> ShapeDomain]
    /\ thickness \in Thicknesses
    /\ \E cs \in ColourSettings :
          /\ use_default_colors = cs.udc
          /\ n_colors = cs.n
    /\ add_lines \in BOOLEAN
    /\ impl = "rendering" =>
          /\ thickness = 1
          /\ use_default_colors
          /\ ~add_lines
    /\ device_dims \in EarlierDims
    /\ impl = "rendering" => device_dims = <<0, 0, 0>>
    /\ dims0 = device_dims
    /\ c = 0
    /\ layer_type = <<>>
    /\ k_layer = 0
    /\ device_layer = <<>>

\* create_device_layer, lines 1193-1210
TagLayer ==
    /\ impl = "util_shapes"
    /\ pc_layer = "tag"
    /\ n_colors' = IF use_default_colors THEN 1 ELSE n_colors
    /\ c' = IF use_default_colors THEN 0 ELSE c
    /\ layer_type' = IF HasSilo(shapes)
                     THEN check_for_false_silos(shapes, InitialLayerType(shapes))
                     ELSE InitialLayerType(shapes)
    /\ k_layer' = 0
    /\ pc_layer' = "features"
    /\ UNCHANGED <<impl, shapes, thickness, use_default_colors, add_lines,
                   device_dims, dims0, device_layer>>
    /\ UNCHANGED not_layer_vars

\* rendering.write_pov, lines 149-162
WritePovTagLayer ==
    /\ impl = "rendering"
    /\ pc_layer = "tag"
    /\ layer_type' = IF HasSilo(shapes)
                     THEN WritePovSiloLoop(InitialLayerType(shapes), 0)
                     ELSE InitialLayerType(shapes)
    /\ pc_layer' = "tagged"
    /\ UNCHANGED <<impl, shapes, thickness, use_default_colors, n_colors,
                   add_lines, device_dims, dims0, c, k_layer, device_layer>>
    /\ UNCHANGED not_layer_vars

\* create_device_layer, lines 1214-1255: one pass of the loop over layer_type
LayerFeature ==
    /\ pc_layer = "features"
    /\ k_layer < Len(layer_type)
    /\ LET r == WriteFeature(shapes, k_layer, layer_type, use_default_colors,
                             n_colors, c, add_lines)
       IN  IF r.err
           THEN /\ pc_layer' = "error"
                /\ UNCHANGED <<device_dims, c, k_layer, device_layer>>
           ELSE /\ pc_layer' = "features"
                /\ k_layer' = k_layer + 1
                /\ IF WritesFeature(layer_type[k_layer + 1])
                   THEN /\ device_dims' =
                              update_device_dims(device_dims, r.x, r.y, 0)
                        /\ c' = NextColor(use_default_colors, c)
                        /\ device_layer' = Append(device_layer, r.feat)
                   ELSE UNCHANGED <<device_dims, c, device_layer>>
    /\ UNCHANGED <<impl, shapes, thickness, use_default_colors, n_colors,
                   add_lines, dims0, layer_type>>
    /\ UNCHANGED not_layer_vars

\* create_device_layer, lines 1257-1261
LayerEnd ==
    /\ pc_layer = "features"
    /\ k_layer >= Len(layer_type)
    /\ device_dims' = update_device_dims(device_dims, 0, 0, thickness)
    /\ device_layer' = Append(device_layer, Feature("close", 0, NoHoles))
    /\ pc_layer' = "done"
    /\ UNCHANGED <<impl, shapes, thickness, use_default_colors, n_colors,
                   add_lines, dims0, c, layer_type, k_layer>>
    /\ UNCHANGED not_layer_vars

-----------------------------------------------------------------------------
(* add_slab (util_shapes.py) *)

\* Lengths of add_slab are counted in quarters, so that 0.5 * x is exact
\* for the whole and half numbers that occur.
Whole(n) == 4 * n

\* 0.5 * x
HalfOf(x) == x \div 2

\* most whole-number length of a lattice vector component
MaxLattice == 2

LatticeComponents == { Whole(n) : n \in 0..MaxLattice }

SlabTypes == {"substrate", "coating", "background", "isosurface", "other"}

\* the halfwidth follows the branch taken for the translation
SlabHalfwidthByType(lv, type) ==
    IF type = "isosurface"
    THEN <<HalfOf(lv[1][1]), HalfOf(lv[1][2])>>
    ELSE <<HalfOf(lv[1][1] + lv[2][1]), HalfOf(lv[1][2] + lv[2][2])>>

\* lines 193-194
SlabHalfwidth(lv, type) ==
    <<HalfOf(lv[1][1] + lv[2][1]), HalfOf(lv[1][2] + lv[2][2])>>

\* lines 198
SlabEnds(thick) == <<0 - HalfOf(thick), HalfOf(thick)>>

\* lines 203-219: the corner points, shifted by the halfwidth
SlabPoints(lv, hw) ==
    LET pts == << <<0, 0>>,
                  <<lv[1][1], lv[1][2]>>,
                  <<lv[1][1] + lv[2][1], lv[1][2] + lv[2][2]>>,
                  <<lv[2][1], lv[2][2]>> >>
    IN  [i \in 1..4 |-> <<pts[i][1] - hw[1], pts[i][2] - hw[2]>>]

\* lines 223-237
SlabTranslate(type, dims, thick, end) ==
    CASE type = "coating" -> <<dims[1], dims[2], end[2] + dims[3]>>
      [] type = "background" -> <<0, 0, end[1] - dims[3]>>
      [] type = "isosurface" ->
            <<HalfOf(dims[1]), HalfOf(dims[2]), 0 - HalfOf(thick)>>
      [] OTHER -> <<dims[1], dims[2], end[1] - dims[3]>>

SlabDims == { <<Whole(0), Whole(0), Whole(0)>>, <<Whole(3), Whole(1), Whole(2)>> }

SlabThicknesses == { Whole(1), Whole(3) }

IdleSlab ==
    /\ pc_slab = "idle"
    /\ lattice_vecs = << <<0, 0>>, <<0, 0>> >>
    /\ slab_thickness = 0
    /\ slab_dims = <<0, 0, 0>>
    /\ slab_type = "substrate"
    /\ slab_ends = <<0, 0>>
    /\ slab_points = <<>>
    /\ slab_translate = <<0, 0, 0>>
    /\ slab_halfwidth = <<0, 0>>

InitSlabCall ==
    /\ pc_slab = "call"
    /\ lattice_vecs \in [1..2 -> [1..2 -> LatticeComponents]]
    /\ slab_thickness \in SlabThicknesses
    /\ slab_dims \in SlabDims
    /\ slab_type \in SlabTypes
    /\ slab_ends = <<0, 0>>
    /\ slab_points = <<>>
    /\ slab_translate = <<0, 0, 0>>
    /\ slab_halfwidth = <<0, 0>>

\* add_slab, lines 193-244
add_slab ==
    /\ pc_slab = "call"
    /\ slab_halfwidth' = SlabHalfwidth(lattice_vecs, slab_type)
    /\ slab_ends' = SlabEnds(slab_thickness)
    /\ slab_points' = SlabPoints(lattice_vecs, slab_halfwidth')
    /\ slab_translate' =
          SlabTranslate(slab_type, slab_dims, slab_thickness, slab_ends')
    /\ pc_slab' = "done"
    /\ UNCHANGED <<lattice_vecs, slab_thickness, slab_dims, slab_type>>
    /\ UNCHANGED not_slab_vars

-----------------------------------------------------------------------------
(* process_field_array and double_roll (util_field.py, povray_iso.py) *)

\* longest axis of an input array
MaxAxisLen == 3

\* numbers of dimensions of the input arrays
MinNdim == 4
MaxNdim == 6

\* index tuples of an array of the given shape, each index from 0
Indices(shape) ==
    { idx \in [1..Len(shape) -> 0..(MaxAxisLen - 1)] :
         \A a \in 1..Len(shape) : idx[a] < shape[a] }

\* an array whose element at idx is labelled by idx itself
Labelled(shape) == [shape |-> shape, data |-> [idx \in Indices(shape) |-> idx]]

NoArray == [shape |-> <<>>, data |-> <<>>]

\* field_array[::-1, :, :, :, :]
ReverseAxis0(A) ==
    [shape |-> A.shape,
     data  |-> [idx \in Indices(A.shape) |->
                  A.data[[idx EXCEPT ![1] = A.shape[1] - 1 - idx[1]]]]]

\* field_array.swapaxes(0, 2)
SwapAxes02(A) ==
    LET sh == [A.shape EXCEPT ![1] = A.shape[3], ![3] = A.shape[1]]
    IN  [shape |-> sh,
         data  |-> [idx \in Indices(sh) |->
                      A.data[[idx EXCEPT ![1] = idx[3], ![3] = idx[1]]]]]

\* a roll in the opposite direction: the element at i moves to (i - n) mod len
RollBackward(A, n, axis) ==
    [shape |-> A.shape,
     data  |-> [idx \in Indices(A.shape) |->
                  A.data[[idx EXCEPT ![axis] =
                            (idx[axis] + n) % A.shape[axis]]]]]

\* np.roll(A, n, axis): the element at i moves to (i + n) mod len
Roll(A, n, axis) ==
    [shape |-> A.shape,
     data  |-> [idx \in Indices(A.shape) |->
                  A.data[[idx EXCEPT ![axis] =
                            (idx[axis] - n) % A.shape[axis]]]]]

\* double_roll, line 72
double_roll(A, n0, n1) == Roll(Roll(A, n0, 1), n1, 2)

\* the test accepts every array of at least 5 dimensions
NdimTooSmall(A) == Len(A.shape) < 5

\* line 37: field_array.ndim != 5
NdimNot5(A) == Len(A.shape) # 5

NoReturn == [arr |-> NoArray, nx |-> 0, ny |-> 0, nz |-> 0]

IdleField ==
    /\ pc_field = "idle"
    /\ field_array = NoArray
    /\ field_array0 = NoArray
    /\ center = FALSE
    /\ field_ret = NoReturn
    /\ field_err = ""

InitFieldCall ==
    /\ pc_field = "call"
    /\ \E n \in MinNdim..MaxNdim :
         \E shape \in [1..n -> 0..MaxAxisLen] : field_array = Labelled(shape)
    /\ field_array0 = field_array
    /\ center \in BOOLEAN
    /\ field_ret = NoReturn
    /\ field_err = ""

\* process_field_array, lines 37-38
FieldRaise ==
    /\ pc_field = "call"
    /\ NdimNot5(field_array)
    /\ field_err' = "RuntimeError"
    /\ pc_field' = "raised"
    /\ UNCHANGED <<field_array, field_array0, center, field_ret>>
    /\ UNCHANGED not_field_vars

\* process_field_array, lines 37-51
FieldProcess ==
    /\ pc_field = "call"
    /\ ~NdimNot5(field_array)
    /\ LET reversed == ReverseAxis0(field_array)
           swapped  == SwapAxes02(reversed)
           nx == swapped.shape[1]
           ny == swapped.shape[2]
           nz == swapped.shape[3]
           out == IF center THEN double_roll(swapped, nx \div 2, ny \div 2)
                  ELSE swapped
       IN  field_ret' = [arr |-> out, nx |-> nx, ny |-> ny, nz |-> nz]
    /\ pc_field' = "returned"
    /\ UNCHANGED <<field_array, field_array0, center, field_err>>
    /\ UNCHANGED not_field_vars

-----------------------------------------------------------------------------
(* slice_isosurface (util_iso.py: box; povray_iso.py: prism) *)

\* number of successive calls of slice_isosurface a caller makes
MaxSliceCalls == 3
\* largest field dimension n[i]
MaxCells == 2

\* fractions of the unit cell are counted in thousandths: Fraction(500) is 0.5
Fraction(per_mille) == per_mille

Kw(word) == Tok(word, 0, 0)
Num(x) == Tok("number", x, 0)

\* mesh strings as create_mesh2 returns them
SliceMeshes ==
    { << Tok("mesh2", Real(1), 0) >>,
      << Tok("union", 0, 0), Tok("mesh2", Real(1), 0),
         Tok("mesh2", Real(2), 1), Tok("end_union", 0, 0) >> }

CornerPairs == { << <<0, 0, 0>>, <<1, 2, 3>> >>, << <<2, 2, 2>>, <<0 - 1, 0, 1>> >> }

\* povray_iso.py line 189: the default value of cut_at, one list object
DefaultCutAt ==
    << <<Fraction(500), Fraction(1000)>>, <<Fraction(500), Fraction(1000)>>,
       <<Fraction(0), Fraction(1000)>> >>

\* [lower, upper] pairs a caller passes for one axis
CutPairs ==
    { <<Fraction(500), Fraction(1000)>>, <<Fraction(0), Fraction(1000)>>,
      <<Fraction(1000), Fraction(0)>>, <<Fraction(250), Fraction(750)>>,
      <<Fraction(0 - 500), Fraction(500)>>, <<Fraction(500), Fraction(1500)>> }

\* the condition that appends the keyword, as if it were unconditional
InverseAlways(sub) == TRUE

\* util_iso.py line 207, povray_iso.py line 253: subtract_box == True
InverseNeeded(sub) == sub = TRUE

\* util_iso.py lines 202-210: the box primitive
BoxText(c1, c2, sub) ==
    << Kw("box"), Kw("{"), Num(c1[1]), Num(c1[2]), Num(c1[3]),
       Num(c2[1]), Num(c2[2]), Num(c2[3]) >>
    \o (IF InverseNeeded(sub) THEN << Kw("inverse") >> ELSE << >>)
    \o << Kw("}") >>

\* the pair as the caller gave it, as if lines 218-219 were absent
OrderPairKept(pair) == pair

\* povray_iso.py lines 218-219: always have the pair in the order [min, max]
OrderPair(pair) == IF pair[1] > pair[2] THEN <<pair[2], pair[1]>> ELSE pair

\* povray_iso.py lines 221-222: the two assertions on one pair
PairAsserts(pair) ==
    /\ Min(pair[1], pair[2]) >= Fraction(0)
    /\ Max(pair[1], pair[2]) <= Fraction(1000)

\* povray_iso.py lines 226-229: overshoot one limit
Overshoot(x) ==
    LET low == IF x = Fraction(0) THEN x - Fraction(1) ELSE x
    IN  IF low = Fraction(1000) THEN low + Fraction(1) ELSE low

\* povray_iso.py lines 225-231: overshoot and scale one pair by n[i]
ScalePair(pair, ni) == << Overshoot(pair[1]) * ni, Overshoot(pair[2]) * ni >>

\* povray_iso.py lines 216-231: the loop over the three axes, which works
\* on the list object cut_at itself; err is set when an assertion fails
RECURSIVE CutLoop(_, _, _)
CutLoop(cut, n, i) ==
    IF i > 3 THEN [err |-> FALSE, cut |-> cut]
    ELSE LET ordered == [cut EXCEPT ![i] = OrderPair(cut[i])]
         IN  IF ~PairAsserts(ordered[i])
             THEN [err |-> TRUE, cut |-> ordered]
             ELSE CutLoop([ordered EXCEPT ![i] = ScalePair(ordered[i], n[i])],
                          n, i + 1)

\* povray_iso.py lines 237-242: the points of the prism
PrismPoints(cut) ==
    << <<cut[2][1], cut[3][1]>>, <<cut[2][2], cut[3][1]>>,
       <<cut[2][2], cut[3][2]>>, <<cut[2][1], cut[3][2]>> >>

\* povray_iso.py lines 245-257: the prism primitive
PrismText(cut, sub) ==
    LET points == PrismPoints(cut)
        PointText(pt) == << Num(pt[1]), Num(pt[2]) >>
    IN  << Kw("prism"), Kw("{"), Kw("linear_sweep"), Kw("linear_spline"),
           Num(cut[1][1]), Num(cut[1][2]), Num(Len(points) + 1) >>
        \o PointText(points[1]) \o PointText(points[2])
        \o PointText(points[3]) \o PointText(points[4])
        \o PointText(points[1])
        \o (IF InverseNeeded(sub) THEN << Kw("inverse") >> ELSE << >>)
        \o << Kw("}") >>

\* util_iso.py line 213, povray_iso.py line 259: the intersection
Intersection(mesh_text, primitive) ==
    << Kw("intersection"), Kw("{") >> \o mesh_text \o primitive \o << Kw("}") >>

Returned(text) == [err |-> FALSE, text |-> text]
Raised == [err |-> TRUE, text |-> << >>]

IdleSlice ==
    /\ slice_impl = "none"
    /\ pc_slice = "idle"
    /\ slice_mesh = << >>
    /\ corners = << <<0, 0, 0>>, <<0, 0, 0>> >>
    /\ slice_n = <<0, 0, 0>>
    /\ cut_is_default = TRUE
    /\ cut_at = DefaultCutAt
    /\ cut_at0 = DefaultCutAt
    /\ subtract_box = FALSE
    /\ slice_rets = << >>

InitSliceCall ==
    /\ pc_slice = "call"
    /\ slice_mesh \in SliceMeshes
    /\ subtract_box \in BOOLEAN
    /\ slice_rets = << >>
    /\ \/ /\ slice_impl = "util_iso"
          /\ corners \in CornerPairs
          /\ slice_n = <<0, 0, 0>>
          /\ cut_is_default = TRUE
          /\ cut_at = DefaultCutAt
       \/ /\ slice_impl = "povray_iso"
          /\ corners = << <<0, 0, 0>>, <<0, 0, 0>> >>
          /\ slice_n \in [1..3 -> 1..MaxCells]
          /\ \/ cut_is_default = TRUE /\ cut_at = DefaultCutAt
             \/ cut_is_default = FALSE /\ cut_at \in [1..3 -> CutPairs]
    /\ cut_at0 = cut_at

\* util_iso.slice_isosurface, lines 182-215
SliceBox ==
    /\ pc_slice = "call"
    /\ slice_impl = "util_iso"
    /\ slice_rets' = Append(slice_rets,
           Returned(Intersection(slice_mesh,
                                 BoxText(corners[1], corners[2], subtract_box))))
    /\ pc_slice' = "returned"
    /\ UNCHANGED <<slice_impl, slice_mesh, corners, slice_n, cut_is_default,
                   cut_at, cut_at0, subtract_box>>
    /\ UNCHANGED not_slice_vars

\* povray_iso.slice_isosurface, lines 189-262
SlicePrism ==
    /\ pc_slice = "call"
    /\ slice_impl = "povray_iso"
    /\ LET loop == CutLoop(cut_at, slice_n, 1)
       IN  /\ cut_at' = loop.cut
           /\ IF loop.err
              THEN /\ slice_rets' = Append(slice_rets, Raised)
                   /\ pc_slice' = "AssertionError"
              ELSE /\ slice_rets' = Append(slice_rets,
                         Returned(Intersection(slice_mesh,
                                               PrismText(loop.cut, subtract_box))))
                   /\ pc_slice' = "returned"
    /\ UNCHANGED <<slice_impl, slice_mesh, corners, slice_n, cut_is_default,
                   cut_at0, subtract_box>>
    /\ UNCHANGED not_slice_vars

\* the caller calls slice_isosurface again with the same arguments
SliceAgain ==
    /\ pc_slice \in {"returned", "AssertionError"}
    /\ Len(slice_rets) < MaxSliceCalls
    /\ pc_slice' = "call"
    /\ UNCHANGED <<slice_impl, slice_mesh, corners, slice_n, cut_is_default,
                   cut_at, cut_at0, subtract_box, slice_rets>>
    /\ UNCHANGED not_slice_vars

-----------------------------------------------------------------------------
(* render_pov (povray_pov.py, util_pov.py) *)

\* file names are sequences of characters
ImageNames ==
    { <<"a", ".", "p", "n", "g">>,
      <<"a", ".", "b", "m", "p">>,
      <<"a", ".", "r", "l", "e">>,
      <<"a", ".", "e", "x", "r">>,
      <<"a", ".", "h", "d", "r">>,
      <<"a", ".", "j", "p", "g">>,
      <<"a", ".", "j", "p", "e", "g">>,
      <<"a", ".", "p", "p", "m">>,
      <<"a", ".", "t", "g", "a">>,
      <<"a", ".", "g", "i", "f">>,
      <<"a">>,
      <<"a", ".", "P", "N", "G">>,
      <<"a", "p", "n", "g">>,
      <<"a", "b", "m", "p">>,
      <<"a", ".", "t", "a", "r", "g", "a">>,
      <<"a", ".", "j", "p", "e", "e", "g">>,
      <<"p", "n", "g">>,
      <<"a", ".", "p", "n", "g", ".", "g", "i", "f">>,
      <<"a", ".", "p", "o", "v", ".", "p", "n", "g">> }

PovNames == { <<"s", ".", "p", "o", "v">>, <<"s">> }

DotPov == <<".", "p", "o", "v">>
DotIni == <<".", "i", "n", "i">>
DotPng == <<".", "p", "n", "g">>

IsPrefixAt(s, i, old) ==
    /\ i + Len(old) - 1 <= Len(s)
    /\ SubSeq(s, i, i + Len(old) - 1) = old

\* str.replace(old, new): every occurrence, left to right
RECURSIVE ReplaceFrom(_, _, _, _)
ReplaceFrom(s, i, old, new) ==
    IF i > Len(s) THEN << >>
    ELSE IF IsPrefixAt(s, i, old)
         THEN new \o ReplaceFrom(s, i + Len(old), old, new)
         ELSE << s[i] >> \o ReplaceFrom(s, i + 1, old, new)

Replace(s, old, new) == ReplaceFrom(s, 1, old, new)

\* a pattern  . pre [star]* post $  of povray_pov.py lines 373-382; the
\* leading dot is the regular expression's "any character"
Pattern(pre, star, post, type) ==
    [pre |-> pre, star |-> star, post |-> post, type |-> type]

\* povray_pov.py lines 373-383: the patterns in the order of the dictionary
file_type_list ==
    << Pattern(<<"p", "n", "g">>, {}, << >>, "N"),
       Pattern(<<"b", "m", "p">>, {}, << >>, "B"),
       Pattern(<<"r", "l", "e">>, {}, << >>, "C"),
       Pattern(<<"e", "x", "r">>, {}, << >>, "E"),
       Pattern(<<"h", "d", "r">>, {}, << >>, "H"),
       Pattern(<<"j", "p">>, {"e"}, <<"g">>, "J"),
       Pattern(<<"p", "p", "m">>, {}, << >>, "P"),
       Pattern(<<"t">>, {"a", "r"}, <<"g", "a">>, "T") >>

\* povray_pov.py lines 387-388: pattern.search(image_name)
Search(pat, name) ==
    \E k \in 0..Len(name) :
        LET n == Len(name)
            start == n - (Len(pat.pre) + k + Len(pat.post))
        IN  /\ start >= 1
            /\ SubSeq(name, start + 1, start + Len(pat.pre)) = pat.pre
            /\ \A i \in (start + Len(pat.pre) + 1)..(n - Len(pat.post)) :
                   name[i] \in pat.star
            /\ SubSeq(name, n - Len(pat.post) + 1, n) = pat.post

\* povray_pov.py lines 384-397: the loop that determines the file type
RECURSIVE FileTypeLoop(_, _)
FileTypeLoop(name, i) ==
    IF Search(file_type_list[i + 1], name)
    THEN [image_name |-> name, use_type |-> file_type_list[i + 1].type]
    ELSE IF i + 1 = Len(file_type_list)
         THEN [image_name |-> name \o DotPng, use_type |-> "N"]
         ELSE FileTypeLoop(name, i + 1)

Opt(word, number, name) == [w |-> word, n |-> number, s |-> name]

\* povray_pov.py lines 422-425, util_pov.py lines 536-539
QualityOption(q) ==
    IF q # 9
    THEN << Opt("+Q", IF q \notin 0..11 THEN 9 ELSE q, << >>) >>
    ELSE << >>

\* povray_pov.py lines 400-425: the lines of the .ini file
IniString(pov, image, type, o) ==
    << Opt("+I", 0, pov), Opt("+O", 0, image),
       Opt("+H", o.height, << >>), Opt("+W", o.width, << >>) >>
    \o << IF o.display THEN Opt("+D", 0, << >>) ELSE Opt("-D", 0, << >>) >>
    \o (IF o.transparent THEN << Opt("+UA", 0, << >>) >> ELSE << >>)
    \o (IF o.antialias THEN << Opt("+A", 0, << >>) >> ELSE << >>)
    \o (IF o.num_threads # 0 THEN << Opt("+WT", o.num_threads, << >>) >> ELSE << >>)
    \o (IF type # "N" THEN << Opt("+F", 0, << type >>) >> ELSE << >>)
    \o QualityOption(o.render_quality)

\* povray_pov.py line 435, util_pov.py line 551
ViewerChained(open) == open = TRUE

\* povray_pov.py line 436, util_pov.py line 552: " && eog image_name"
ViewerPart(image, o) ==
    IF ViewerChained(o.open_image)
    THEN << Opt("&&", 0, << >>), Opt("eog", 0, image) >>
    ELSE << >>

\* povray_pov.py lines 434-436
IniCommand(ini, image, o) == << Opt("povray", 0, ini) >> \o ViewerPart(image, o)

\* util_pov.py lines 518-552
InlineCommand(pov, image, o) ==
    << Opt("povray", 0, << >>), Opt("Input_File_Name=", 0, pov),
       Opt("Output_File_Name=", 0, image),
       Opt("+H", o.height, << >>), Opt("+W", o.width, << >>) >>
    \o << IF o.display THEN Opt("Display=on", 0, << >>)
          ELSE Opt("Display=off", 0, << >>) >>
    \o (IF o.transparent THEN << Opt("+ua", 0, << >>) >> ELSE << >>)
    \o (IF o.antialias THEN << Opt("+A", 0, << >>) >> ELSE << >>)
    \o (IF o.num_threads # 0 THEN << Opt("+WT", o.num_threads, << >>) >> ELSE << >>)
    \o QualityOption(o.render_quality)
    \o ViewerPart(image, o)

\* the call of system() as if it were unconditional
SystemCalledAlways(render) == TRUE

\* povray_pov.py line 437, util_pov.py line 554: render == True
SystemCalled(render) == render = TRUE

Ran(program, ok) == [program |-> program, ok |-> ok]

\* what the shell does with  first && second : the second program runs
\* only when the first one exits with status 0
ShellRuns(cmd, first_ok) ==
    << Ran(cmd[1].w, first_ok) >>
    \o (IF first_ok /\ \E i \in DOMAIN cmd : cmd[i].w = "&&"
        THEN << Ran(cmd[Len(cmd)].w, TRUE) >> ELSE << >>)

NoIni == [name |-> << >>, lines |-> << >>]

RenderOptions ==
    [ height : {800}, width : {600},
      display : BOOLEAN, transparent : BOOLEAN, antialias : BOOLEAN,
      num_threads : {0, 4}, open_image : BOOLEAN, render : BOOLEAN,
      render_quality : {9, 5, 12} ]

IdleOptions ==
    [ height |-> 0, width |-> 0, display |-> FALSE, transparent |-> FALSE,
      antialias |-> FALSE, num_threads |-> 0, open_image |-> FALSE,
      render |-> FALSE, render_quality |-> 9 ]

IdleRender ==
    /\ render_impl = "none"
    /\ pc_render = "idle"
    /\ pov_name = << >>
    /\ image_name = << >>
    /\ image_name0 = << >>
    /\ render_opts = IdleOptions
    /\ use_type = ""
    /\ ini_file = NoIni
    /\ command = << >>
    /\ shell_log = << >>
    /\ reported = << >>

InitRenderCall ==
    /\ render_impl \in {"povray_pov", "util_pov"}
    /\ pc_render = "call"
    /\ pov_name \in PovNames
    /\ image_name \in ImageNames
    /\ image_name0 = image_name
    /\ render_opts \in RenderOptions
    /\ use_type = ""
    /\ ini_file = NoIni
    /\ command = << >>
    /\ shell_log = << >>
    /\ reported = << >>

\* povray_pov.render_pov, lines 373-436: file type, .ini file and command
RenderPrepareIni ==
    /\ pc_render = "call"
    /\ render_impl = "povray_pov"
    /\ LET chosen == FileTypeLoop(image_name, 0)
           ini_name == Replace(pov_name, DotPov, DotIni)
       IN  /\ image_name' = chosen.image_name
           /\ use_type' = chosen.use_type
           /\ ini_file' = [name |-> ini_name,
                           lines |-> IniString(pov_name, chosen.image_name,
                                               chosen.use_type, render_opts)]
           /\ command' = IniCommand(ini_name, chosen.image_name, render_opts)
    /\ pc_render' = "system"
    /\ UNCHANGED <<render_impl, pov_name, image_name0, render_opts, shell_log,
                   reported>>
    /\ UNCHANGED not_render_vars

\* util_pov.render_pov, lines 518-552: the command
RenderPrepareInline ==
    /\ pc_render = "call"
    /\ render_impl = "util_pov"
    /\ command' = InlineCommand(pov_name, image_name, render_opts)
    /\ pc_render' = "system"
    /\ UNCHANGED <<render_impl, pov_name, image_name, image_name0, render_opts,
                   use_type, ini_file, shell_log, reported>>
    /\ UNCHANGED not_render_vars

\* povray_pov.py lines 437-438, util_pov.py lines 554-555: system(command);
\* the renderer exits with status 0 or not
RenderSystem ==
    /\ pc_render = "system"
    /\ SystemCalled(render_opts.render)
    /\ \E ok \in BOOLEAN : shell_log' = ShellRuns(command, ok)
    /\ pc_render' = "report"
    /\ UNCHANGED <<render_impl, pov_name, image_name, image_name0, render_opts,
                   use_type, ini_file, command, reported>>
    /\ UNCHANGED not_render_vars

\* povray_pov.py line 437, util_pov.py line 554: render is not True
RenderSkipSystem ==
    /\ pc_render = "system"
    /\ ~SystemCalled(render_opts.render)
    /\ pc_render' = "report"
    /\ UNCHANGED <<render_impl, pov_name, image_name, image_name0, render_opts,
                   use_type, ini_file, command, shell_log, reported>>
    /\ UNCHANGED not_render_vars

\* povray_pov.py lines 440-447, util_pov.py lines 557-567: print and return
RenderReport ==
    /\ pc_render = "report"
    /\ reported' = command
    /\ pc_render' = "returned"
    /\ UNCHANGED <<render_impl, pov_name, image_name, image_name0, render_opts,
                   use_type, ini_file, command, shell_log>>
    /\ UNCHANGED not_render_vars

-----------------------------------------------------------------------------
(* write_pov_file (povray_pov.py) *)

\* number of lines of a scene string
MaxPovLines == 3

\* lines of a scene
CameraLine == "camera {"
IncludeLines ==
    << "#include \"colors.inc\"", "#include \"finish.inc\"",
       "#include \"glass.inc\"", "#include \"metals.inc\"" >>
FinishWordLine == "finish { Dull }"
PigmentWordLine == "pigment { Red }"
FinishValueLine == "finish { phong 1 }"
ShapeLine == "sphere {"

SceneLines ==
    { CameraLine, IncludeLines[1], FinishWordLine, PigmentWordLine,
      FinishValueLine, ShapeLine }

\* povray_pov.py line 285: grep 'finish {[A-Za-z ][A-Za-z ]*}'
GrepFinish(lines) == \E i \in DOMAIN lines : lines[i] = FinishWordLine

\* povray_pov.py line 290: grep 'pigment {[A-Za-z ][A-Za-z ]*}'
GrepPigment(lines) == \E i \in DOMAIN lines : lines[i] = PigmentWordLine

\* povray_pov.py line 296: grep '^#include'
GrepInclude(lines) ==
    \E i \in DOMAIN lines : \E j \in DOMAIN IncludeLines : lines[i] = IncludeLines[j]

\* povray_pov.py lines 282-298: the #include lines are missing
NeedsIncludes(lines) ==
    (GrepFinish(lines) \/ GrepPigment(lines)) /\ ~GrepInclude(lines)

\* povray_pov.py lines 304-307: sed '/camera/ i\...' puts the four lines
\* before every line that contains the word camera
RECURSIVE SedInsert(_)
SedInsert(lines) ==
    IF lines = << >> THEN << >>
    ELSE (IF Head(lines) = CameraLine THEN IncludeLines ELSE << >>)
         \o << Head(lines) >> \o SedInsert(Tail(lines))

\* povray_pov.py line 303: the file the sed command is given
SedTarget(name) == "shiny_batman.pov"

FileNames == {"scene.pov", "shiny_batman.pov"}

NoFile == [exists |-> FALSE, lines |-> << >>]
File(lines) == [exists |-> TRUE, lines |-> lines]

\* sed -i on a file: a missing file is an error and nothing is created
SedInPlace(fs, name) ==
    IF fs[name].exists
    THEN [fs EXCEPT ![name] = File(SedInsert(fs[name].lines))]
    ELSE fs

SceneStrings == UNION { [1..n -> SceneLines] : n \in 0..MaxPovLines }

EarlierFiles ==
    { NoFile, File(<< ShapeLine >>), File(<< CameraLine, FinishWordLine >>) }

IdlePovFile ==
    /\ pc_povfile = "idle"
    /\ povfile_name = ""
    /\ pov_string = << >>
    /\ files = [f \in FileNames |-> NoFile]
    /\ files0 = files

InitPovFileCall ==
    /\ pc_povfile = "call"
    /\ povfile_name \in FileNames
    /\ pov_string \in SceneStrings
    /\ files \in [FileNames -> EarlierFiles]
    /\ files0 = files

\* write_pov_file, lines 278-310, when no #include line has to be added
WritePovFilePlain ==
    /\ pc_povfile = "call"
    /\ LET written == [files EXCEPT ![povfile_name] = File(pov_string)]
       IN  /\ ~NeedsIncludes(written[povfile_name].lines)
           /\ files' = written
    /\ pc_povfile' = "returned"
    /\ UNCHANGED <<povfile_name, pov_string, files0>>
    /\ UNCHANGED not_povfile_vars

\* write_pov_file, lines 278-310, when the sed command is run
WritePovFileFix ==
    /\ pc_povfile = "call"
    /\ LET written == [files EXCEPT ![povfile_name] = File(pov_string)]
       IN  /\ NeedsIncludes(written[povfile_name].lines)
           /\ files' = SedInPlace(written, SedTarget(povfile_name))
    /\ pc_povfile' = "returned"
    /\ UNCHANGED <<povfile_name, pov_string, files0>>
    /\ UNCHANGED not_povfile_vars

-----------------------------------------------------------------------------
(* create_device (util_shapes.py) *)

\* number of device layers
MaxDevLayers == 2

\* a layer of statepoint.dev_layers; in_dict: background in coating_color_dict
DevLayer(has_shapes, shs, thick, in_dict) ==
    [has_shapes |-> has_shapes, shapes |-> shs, thickness |-> thick,
     background |-> IF in_dict THEN "SiO2" ELSE "Vacuum"]

DevShapeLists ==
    { << Circle("Si", 2) >>,
      << Rectangle("Si", 3, 1), Circle("Vacuum", 1) >>,
      << Polygon("Si", Triangle3), Circle("Vacuum", 1) >> }

DevLayerDomain ==
    { DevLayer(FALSE, << >>, t, FALSE) : t \in Thicknesses }
    \cup { DevLayer(TRUE, shs, t, d) :
              shs \in DevShapeLists, t \in Thicknesses, d \in BOOLEAN }

\* the keys of coating_color_dict
CoatingMaterials == {"SiO2"}

DevLattices ==
    { << <<Whole(2), Whole(0)>>, <<Whole(0), Whole(2)>> >>,
      << <<Whole(2), Whole(1)>>, <<Whole(0), Whole(3)>> >> }

UnitCellCounts == { <<1, 1>>, <<2, 3>> }

CoatingLists == { << >>, << 1 >> }

SubstrateThicknesses == {0, 2}

\* use_default_colors with the length of the custom_colors list
DevColourSettings ==
    { [udc |-> TRUE, orig |-> 1, n |-> 1], [udc |-> FALSE, orig |-> 2, n |-> 2],
      [udc |-> FALSE, orig |-> 0, n |-> 0] }

Part(name, i, info) == [part |-> name, i |-> i, info |-> info]

\* lines 1408-1409: end = [top, bottom], in units of 1/Scale
LayerTop(dims) == 0 - Real(dims[3])
LayerBottom(dims, thick) == 0 - Real(dims[3]) - Real(thick)

\* lines 1437-1438: end[0] -= 0.00010, end[1] -= 0.00010
EndCapShift == 1

LayerEndList(dims, thick, with_background) ==
    IF with_background
    THEN << LayerTop(dims) - EndCapShift, LayerBottom(dims, thick) - EndCapShift >>
    ELSE << LayerTop(dims), LayerBottom(dims, thick) >>

\* line 1529: device_dims = update_device_dims(device_dims, 0, 0, thickness_sub)
AddSubstrateZ(dims, sub) == update_device_dims(dims, 0, 0, sub)

\* lines 1532-1535: the cap of the camera distance
CapCameraDims(dims, uc) ==
    update_device_dims(dims, Min(5, uc[1]) * dims[1], Min(5, uc[2]) * dims[2],
                       dims[3])

\* the whole count taken as the adjustment, so that no copy stays at the origin
AdjustAll(n) == n

\* lines 1454-1455: adj_x, adj_y
Adjust(n) == (n - (1 + ((n - 1) % 2))) \div 2

\* lines 1461-1468: one object per pair (i, j)
RECURSIVE Copies(_, _, _, _)
Copies(uc, lv, i, j) ==
    IF i >= uc[1] THEN << >>
    ELSE IF j >= uc[2] THEN Copies(uc, lv, i + 1, 0)
    ELSE << Part("object", 0,
               << (i - Adjust(uc[1])) * lv[1][1] - (j - Adjust(uc[2])) * lv[2][1],
                  (j - Adjust(uc[2])) * lv[2][2] - (i - Adjust(uc[1])) * lv[1][2],
                  0 >>) >>
         \o Copies(uc, lv, i, j + 1)

\* lines 1483-1488: the shift of the slabs for even numbers of unit cells
CoatingStart(uc, lv) ==
    << IF uc[1] % 2 = 0 THEN HalfOf(lv[1][1]) - HalfOf(lv[2][1]) ELSE 0,
       IF uc[2] % 2 = 0 THEN HalfOf(lv[2][2]) - HalfOf(lv[1][2]) ELSE 0,
       0 >>

\* lines 1495-1508: the loop over the coating layers
RECURSIVE CoatingLoop(_, _, _)
CoatingLoop(coats, j, acc) ==
    IF j > Len(coats) THEN acc
    ELSE CoatingLoop(coats, j + 1,
           [parts |-> Append(acc.parts, Part("coating", j, acc.dims)),
            dims  |-> update_device_dims(acc.dims, 0, 0, Whole(coats[j]))])

IdleDevice ==
    /\ pc_device = "idle"
    /\ dev_layers = << >>
    /\ dev_lattice = << <<0, 0>>, <<0, 0>> >>
    /\ num_UC = <<0, 0>>
    /\ coating_layers = << >>
    /\ sub_thickness = 0
    /\ dev_colors = [udc |-> TRUE, orig |-> 0, n |-> 0]
    /\ dev_add_lines = FALSE
    /\ dev_i = 0
    /\ dev_c = 0
    /\ dev_dims = <<0, 0, 0>>
    /\ background = "unbound"
    /\ layer_ends = << >>
    /\ coating_dims = <<0, 0, 0>>
    /\ device = << >>

InitDeviceCall ==
    /\ pc_device = "colors"
    /\ \E n \in 0..MaxDevLayers : dev_layers \in [1..n -> DevLayerDomain]
    /\ dev_lattice \in DevLattices
    /\ num_UC \in UnitCellCounts
    /\ coating_layers \in CoatingLists
    /\ sub_thickness \in SubstrateThicknesses
    /\ dev_colors \in DevColourSettings
    /\ dev_add_lines \in BOOLEAN
    /\ dev_i = 0
    /\ dev_c = 0
    /\ dev_dims = <<0, 0, 0>>
    /\ background = "unbound"
    /\ layer_ends = << >>
    /\ coating_dims = <<0, 0, 0>>
    /\ device = << >>

\* lines 1361-1364: one pass of the while loop that extends custom_colors
DeviceExtendColors ==
    /\ pc_device = "colors"
    /\ ~dev_colors.udc
    /\ dev_colors.n < 3 * Len(dev_layers)
    /\ dev_colors' = [dev_colors EXCEPT !.n = @ + dev_colors.orig]
    /\ UNCHANGED <<pc_device, dev_layers, dev_lattice, num_UC, coating_layers,
                   sub_thickness, dev_add_lines, dev_i, dev_c, dev_dims,
                   background, layer_ends, coating_dims, device>>
    /\ UNCHANGED layer_vars
    /\ UNCHANGED not_device_vars

\* lines 1361-1393: the end of the colour loop and the start of the unit cell
DeviceOpenUnitCell ==
    /\ pc_device = "colors"
    /\ dev_colors.udc \/ dev_colors.n >= 3 * Len(dev_layers)
    /\ dev_c' = 0
    /\ dev_dims' = <<0, 0, 0>>
    /\ coating_dims' = <<0, 0, 0>>
    /\ device' = << Part("declare UnitCell", 0, << >>), Part("merge {", 0, << >>) >>
    /\ dev_i' = 0
    /\ pc_device' = "layers"
    /\ UNCHANGED <<dev_layers, dev_lattice, num_UC, coating_layers,
                   sub_thickness, dev_colors, dev_add_lines, background,
                   layer_ends>>
    /\ UNCHANGED layer_vars
    /\ UNCHANGED not_device_vars

\* lines 1396-1400: a layer without shapes is passed over
DeviceSkipLayer ==
    /\ pc_device = "layers"
    /\ dev_i < Len(dev_layers)
    /\ ~dev_layers[dev_i + 1].has_shapes
    /\ dev_i' = dev_i + 1
    /\ UNCHANGED <<pc_device, dev_layers, dev_lattice, num_UC, coating_layers,
                   sub_thickness, dev_colors, dev_add_lines, dev_c, dev_dims,
                   background, layer_ends, coating_dims, device>>
    /\ UNCHANGED layer_vars
    /\ UNCHANGED not_device_vars

\* lines 1396-1443: a layer with shapes, up to the call of create_device_layer
DeviceLayerCall ==
    /\ pc_device = "layers"
    /\ dev_i < Len(dev_layers)
    /\ dev_layers[dev_i + 1].has_shapes
    /\ LET layer == dev_layers[dev_i + 1]
           with_background == layer.background \in CoatingMaterials
           end == LayerEndList(dev_dims, layer.thickness, with_background)
       IN  /\ background' = layer.background
           /\ layer_ends' = Append(layer_ends, [i |-> dev_i, end |-> end])
           /\ device' = device \o << Part("union {", dev_i, << >>) >>
                  \o (IF with_background
                      THEN << Part("background", dev_i, dev_dims) >> ELSE << >>)
           /\ impl' = "util_shapes"
           /\ shapes' = layer.shapes
           /\ thickness' = layer.thickness
    /\ use_default_colors' = dev_colors.udc
    /\ n_colors' = dev_colors.n
    /\ add_lines' = dev_add_lines
    /\ device_dims' = dev_dims
    /\ dims0' = dev_dims
    /\ c' = dev_c
    /\ layer_type' = << >>
    /\ k_layer' = 0
    /\ device_layer' = << >>
    /\ pc_layer' = "tag"
    /\ pc_device' = "in_layer"
    /\ UNCHANGED <<dev_layers, dev_lattice, num_UC, coating_layers,
                   sub_thickness, dev_colors, dev_add_lines, dev_i, dev_c,
                   dev_dims, coating_dims>>
    /\ UNCHANGED not_device_vars

\* lines 1441-1444: create_device_layer has returned
DeviceLayerReturn ==
    /\ pc_device = "in_layer"
    /\ pc_layer = "done"
    /\ device' = Append(device, Part("layer", dev_i, device_layer))
    /\ dev_c' = c
    /\ dev_dims' = device_dims
    /\ dev_i' = dev_i + 1
    /\ pc_layer' = "idle"
    /\ pc_device' = "layers"
    /\ UNCHANGED <<dev_layers, dev_lattice, num_UC, coating_layers,
                   sub_thickness, dev_colors, dev_add_lines, background,
                   layer_ends, coating_dims>>
    /\ UNCHANGED <<impl, shapes, thickness, use_default_colors, n_colors,
                   add_lines, device_dims, dims0, c, layer_type, k_layer,
                   device_layer>>
    /\ UNCHANGED not_device_vars

\* lines 1441-1443: the exception of create_device_layer ends create_device
DeviceLayerRaise ==
    /\ pc_device = "in_layer"
    /\ pc_layer = "error"
    /\ pc_device' = "error"
    /\ UNCHANGED <<dev_layers, dev_lattice, num_UC, coating_layers,
                   sub_thickness, dev_colors, dev_add_lines, dev_i, dev_c,
                   dev_dims, background, layer_ends, coating_dims, device>>
    /\ UNCHANGED layer_vars
    /\ UNCHANGED not_device_vars

\* lines 1446-1468: the end of the unit cell and its copies
DeviceReplicate ==
    /\ pc_device = "layers"
    /\ dev_i >= Len(dev_layers)
    /\ device' = device
          \o << Part("}", 0, << >>), Part("merge {", 0, << >>) >>
          \o Copies(num_UC, dev_lattice, 0, 0)
    /\ pc_device' = "coating"
    /\ UNCHANGED <<dev_layers, dev_lattice, num_UC, coating_layers,
                   sub_thickness, dev_colors, dev_add_lines, dev_i, dev_c,
                   dev_dims, background, layer_ends, coating_dims>>
    /\ UNCHANGED layer_vars
    /\ UNCHANGED not_device_vars

\* lines 1476-1511: the coating layers; color_and_finish is given the name
\* background, which is bound only when a layer with shapes was processed
DeviceCoating ==
    /\ pc_device = "coating"
    /\ IF coating_layers # << >> /\ background = "unbound"
       THEN /\ pc_device' = "error"
            /\ coating_dims' = CoatingStart(num_UC, dev_lattice)
            /\ UNCHANGED device
       ELSE LET loop == CoatingLoop(coating_layers, 1,
                           [parts |-> << >>,
                            dims  |-> CoatingStart(num_UC, dev_lattice)])
            IN  /\ coating_dims' = loop.dims
                /\ device' = device \o loop.parts \o << Part("}", 0, << >>) >>
                /\ pc_device' = "substrate"
    /\ UNCHANGED <<dev_layers, dev_lattice, num_UC, coating_layers,
                   sub_thickness, dev_colors, dev_add_lines, dev_i, dev_c,
                   dev_dims, background, layer_ends>>
    /\ UNCHANGED layer_vars
    /\ UNCHANGED not_device_vars

\* lines 1513-1529: the substrate
DeviceSubstrate ==
    /\ pc_device = "substrate"
    /\ LET thickness_sub == Max(1, sub_thickness)
       IN  /\ device' = Append(device, Part("substrate", 0,
                                 << CoatingStart(num_UC, dev_lattice)[1],
                                    CoatingStart(num_UC, dev_lattice)[2],
                                    dev_dims[3], thickness_sub >>))
           /\ dev_dims' = AddSubstrateZ(dev_dims, thickness_sub)
    /\ pc_device' = "cap"
    /\ UNCHANGED <<dev_layers, dev_lattice, num_UC, coating_layers,
                   sub_thickness, dev_colors, dev_add_lines, dev_i, dev_c,
                   background, layer_ends, coating_dims>>
    /\ UNCHANGED layer_vars
    /\ UNCHANGED not_device_vars

\* lines 1531-1537: the cap of the camera distance, and the return
DeviceCapAndReturn ==
    /\ pc_device = "cap"
    /\ dev_dims' = CapCameraDims(dev_dims, num_UC)
    /\ pc_device' = "returned"
    /\ UNCHANGED <<dev_layers, dev_lattice, num_UC, coating_layers,
                   sub_thickness, dev_colors, dev_add_lines, dev_i, dev_c,
                   background, layer_ends, coating_dims, device>>
    /\ UNCHANGED layer_vars
    /\ UNCHANGED not_device_vars

-----------------------------------------------------------------------------
(* color_and_finish (util_shapes.py, util_pov.py) *)

\* calls of color_and_finish that share one default_color_dict and one list
MaxColorCalls == 2

\* colour components are counted in units of 1/Scale: 0.98 is 9800
Decimal(ten_thousandths) == ten_thousandths

\* util_shapes.py lines 1349-1353: default_color_dict of create_device
DefaultColorDict ==
    [material \in {"subst", "Si", "SiO2"} |->
        CASE material = "subst" -> <<Decimal(1500), Decimal(1500), Decimal(1500), 0, 0>>
          [] material = "Si" -> <<Decimal(2000), Decimal(2000), Decimal(2000), 0, 0>>
          [] material = "SiO2" ->
                <<Decimal(9900), Decimal(9900), Decimal(9600), 0, Decimal(1000)>>]

\* colours a caller passes as custom_color: RGB, RGB + filter,
\* RGB + filter + transmit
CustomColors ==
    { <<Decimal(0), Decimal(6667), Decimal(6670)>>,
      <<Decimal(1000), Decimal(2000), Decimal(3000), Decimal(4000)>>,
      <<Decimal(1000), Decimal(2000), Decimal(3000), Decimal(4000), Decimal(5000)>> }

\* the values of use_finish that the chain of lines 1723-1815 tells apart;
\* "dull" stands for every value that reaches the final else
Finishes ==
    { "material", "Si", "silicon", "SiO2", "translucent", "glass",
      "dull_metal", "bright_metal", "irid", "billiard", "custom", "dull" }

CustomFinishes == { << >>, << Kw("finish"), Kw("{"), Kw("ambient"), Kw("}") >> }

\* the object text a shape function hands over: opened, not yet closed
OpenObject == << Kw("cylinder"), Kw("{") >>

\* lines 1723-1724
EffectiveFinish(use_finish, material) ==
    IF use_finish = "material" THEN material ELSE use_finish

\* lines 1720, 1740, 1751, 1762, 1792: the local name filter_
FinishFilter(f) ==
    CASE f = "SiO2" -> Decimal(9800)
      [] f = "translucent" -> Decimal(5000)
      [] f = "glass" -> Decimal(9500)
      [] f = "irid" -> Decimal(7000)
      [] OTHER -> 0

\* lines 1720, 1750: the local name transmit
FinishTransmit(f) == IF f = "translucent" THEN Decimal(200) ELSE 0

\* line 1827
OverridesColor(f) == f \in {"SiO2", "translucent", "glass", "irid"}

\* lines 1726-1815: extra_finish
ExtraFinish(f, custom_finish) ==
    LET body(words) == << Kw("finish"), Kw("{") >> \o words \o << Kw("}") >>
        interior == << Kw("interior"), Kw("{"), Kw("ior"), Kw("}") >>
        reflection == << Kw("reflection"), Kw("{"), Kw("fresnel"), Kw("}") >>
    IN  CASE f \in {"Si", "silicon"} ->
                 body(<< Kw("diffuse"), Kw("reflection"), Kw("metallic") >>) \o interior
          [] f \in {"SiO2", "glass"} -> body(<< Kw("specular") >> \o reflection) \o interior
          [] f = "translucent" -> body(<< Kw("emission") >> \o reflection) \o interior
          [] f \in {"dull_metal", "bright_metal"} ->
                 body(<< Kw("emission"), Kw("reflection"), Kw("metallic") >>)
          [] f = "irid" ->
                 body(<< Kw("phong"), Kw("reflection"), Kw("{"), Kw("metallic"), Kw("}"),
                         Kw("irid"), Kw("{"), Kw("turbulence"), Kw("}") >>) \o interior
          [] f = "billiard" -> body(<< Kw("ambient"), Kw("metallic") >>)
          [] f = "custom" -> custom_finish
          [] OTHER -> << >>

\* lines 1823-1836, on the list object `color`: the two appends, the two
\* item assignments in the order of the source, and the five items the
\* f-string reads; an index past the end of the list raises IndexError and
\* leaves the list as the statements before it made it
PigmentOutcome(color, f) ==
    LET padded == IF Len(color) = 3 THEN color \o <<0, 0>> ELSE color
        third == IF OverridesColor(f)
                 THEN [padded EXCEPT ![4] = FinishTransmit(f)] ELSE padded
        fourth == IF OverridesColor(f)
                  THEN [third EXCEPT ![5] = FinishFilter(f)] ELSE third
    IN  IF Len(padded) < 5
        THEN [err |-> TRUE, color |-> third, pigment |-> << >>]
        ELSE [err |-> FALSE, color |-> fourth, pigment |-> SubSeq(fourth, 1, 5)]

\* lines 1832-1841: what color_and_finish appends to dev_string
PigmentAndFinish(pigment, extra_finish) ==
    << Kw("pigment"), Kw("{"), Tok("rgbft", pigment, 0), Kw("}") >>
    \o extra_finish \o << Kw("}") >>

\* lines 1832-1843: the returned string
FinishedObject(pigment, extra_finish) ==
    OpenObject \o PigmentAndFinish(pigment, extra_finish)

IdleColor ==
    /\ pc_color = "idle"
    /\ color_dict = DefaultColorDict
    /\ color_dict0 = DefaultColorDict
    /\ custom_color = << >>
    /\ custom_color0 = << >>
    /\ color_rets = << >>

InitColorCalls ==
    /\ pc_color = "ready"
    /\ color_dict = DefaultColorDict
    /\ color_dict0 = color_dict
    /\ custom_color \in CustomColors
    /\ custom_color0 = custom_color
    /\ color_rets = << >>

\* color_and_finish, util_shapes.py lines 1663-1843 and util_pov.py lines
\* 110-300, called as the shape functions call it: with the dictionary of
\* create_device and with one element of custom_colors
color_and_finish ==
    /\ pc_color = "ready"
    /\ Len(color_rets) < MaxColorCalls
    /\ \E material \in DOMAIN color_dict, udc \in BOOLEAN, use_finish \in Finishes :
       \E custom_finish \in (IF use_finish = "custom" THEN CustomFinishes ELSE { << >> }) :
          LET f == EffectiveFinish(use_finish, material)
              color == IF udc THEN color_dict[material] ELSE custom_color
              out == PigmentOutcome(color, f)
          IN  /\ color_dict' = IF udc THEN [color_dict EXCEPT ![material] = out.color]
                               ELSE color_dict
              /\ custom_color' = IF udc THEN custom_color ELSE out.color
              /\ color_rets' = Append(color_rets,
                     [material |-> material, use_default_colors |-> udc,
                      use_finish |-> use_finish, custom_finish |-> custom_finish,
                      given |-> color, err |-> out.err,
                      pigment |-> out.pigment,
                      text |-> IF out.err THEN << >>
                               ELSE FinishedObject(out.pigment,
                                                   ExtraFinish(f, custom_finish))])
    /\ UNCHANGED <<pc_color, color_dict0, custom_color0>>
    /\ UNCHANGED not_color_vars

-----------------------------------------------------------------------------
(* The text of the device string (util_shapes.py) *)

\* the closing brace that create_cylinder and the other shape functions add
\* for a silo, as if it were never added
ForSiloCloseNever(for_silo) == << >>

\* lines 47-50, 80-81, 115-116, 162-163: if for_silo: string += "}"
ForSiloClose(for_silo) == IF for_silo THEN << Kw("}") >> ELSE << >>

\* create_cylinder, create_ellipse, create_rectangle, create_polygon,
\* lines 28-165: the shape is opened, and closed only for a silo
ShapeText(kind, for_silo) ==
    << Kw(IF kind \in {"circle", "ellipse"} THEN "cylinder"
          ELSE IF kind = "rectangle" THEN "box" ELSE "prism"), Kw("{") >>
    \o ForSiloClose(for_silo)

\* add_slab, lines 212-243: the prism is left open
SlabText == << Kw("prism"), Kw("{") >>

Braced(word, inner) == << Kw(word), Kw("{") >> \o inner \o << Kw("}") >>

\* create_torus, lines 281-302, and create_sphere, lines 318-323
Torus == Braced("torus", Braced("pigment", << >>))
Sphere == Braced("sphere", Braced("pigment", << >>))

\* lines 402-420, 490-499, 547-554: a declared or written line cylinder
LineCylinder == ShapeText("circle", FALSE) \o Braced("pigment", << >>) \o << Kw("}") >>

RECURSIVE Repeat(_, _)
Repeat(text, n) == IF n <= 0 THEN << >> ELSE text \o Repeat(text, n - 1)

\* lines 517-554: the corners and edges of a polygon, from vertex i on; an
\* edge is written when it is longer than the line is thick
RECURSIVE PolygonLines(_, _)
PolygonLines(vs, i) ==
    IF i > Len(vs) THEN << >>
    ELSE LET end2 == IF i = Len(vs) THEN vs[1] ELSE vs[i + 1]
             one == Braced("object", << >>)
                    \o (IF vs[i] # end2 THEN LineCylinder ELSE << >>)
         IN  one \o one \o PolygonLines(vs, i + 1)

\* add_accent_lines, lines 372-556, for the shape record sh
AccentLines(sh) ==
    CASE sh.shape \in {"circle", "ellipse"} -> Torus \o Torus
      [] sh.shape = "rectangle" ->
             LineCylinder \o LineCylinder \o LineCylinder \o Sphere
             \o Repeat(Braced("object", << >>), 20)
      [] sh.shape = "polygon" -> Sphere \o PolygonLines(sh.vertices, 1)
      [] OTHER -> << >>

\* the accent lines of the holes of a silo, lines 1121-1125
RECURSIVE HoleLines(_, _, _)
HoleLines(shs, holes, h) ==
    IF h > Len(holes) THEN << >>
    ELSE AccentLines([At(shs, holes[h].src) EXCEPT !.shape = holes[h].shape])
         \o HoleLines(shs, holes, h + 1)

RECURSIVE HoleTexts(_, _)
HoleTexts(holes, h) ==
    IF h > Len(holes) THEN << >>
    ELSE ShapeText(holes[h].shape, TRUE) \o HoleTexts(holes, h + 1)

\* the text of one feature of device_layer: write_circle_feature (lines
\* 640-656) and its siblings, write_silo_feature (lines 988-1141), and the
\* closing brace of create_device_layer (line 1259)
FeatureText(f, shs, lines, finish) ==
    LET closing == PigmentAndFinish(<<0, 0, 0, 0, 0>>, ExtraFinish(finish, << >>))
    IN  CASE f.feat = "close" -> << Kw("}") >>
          [] f.feat = "silo" ->
                 << Kw("difference"), Kw("{") >>
                 \o ShapeText(At(shs, f.k).shape, TRUE)
                 \o HoleTexts(f.holes, 1)
                 \o closing
                 \o (IF lines THEN AccentLines(At(shs, f.k))
                                   \o HoleLines(shs, f.holes, 1)
                     ELSE << >>)
          [] f.feat \in {"circle", "ellipse", "rectangle", "polygon"} ->
                 ShapeText(f.feat, FALSE) \o closing
                 \o (IF lines THEN AccentLines(At(shs, f.k)) ELSE << >>)
          [] OTHER -> << >>

RECURSIVE LayerText(_, _, _, _, _)
LayerText(feats, shs, lines, finish, n) ==
    IF n > Len(feats) THEN << >>
    ELSE FeatureText(feats[n], shs, lines, finish)
         \o LayerText(feats, shs, lines, finish, n + 1)

\* the text of one part of the device string of create_device, lines
\* 1392-1523
PartText(p, layers, lines, finish) ==
    CASE p.part = "declare UnitCell" -> << Kw("#declare") >>
      [] p.part = "merge {" -> << Kw("merge"), Kw("{") >>
      [] p.part = "union {" -> << Kw("union"), Kw("{") >>
      [] p.part = "}" -> << Kw("}") >>
      [] p.part = "object" -> Braced("object", << >>)
      [] p.part \in {"background", "coating"} ->
             SlabText \o PigmentAndFinish(<<1, 0, 0, 0, 0>>,
                                          ExtraFinish("translucent", << >>))
      [] p.part = "substrate" ->
             SlabText \o PigmentAndFinish(DefaultColorDict["subst"],
                                          ExtraFinish("dull", << >>))
      [] p.part = "layer" ->
             LayerText(p.info, layers[p.i + 1].shapes, lines, finish, 1)

RECURSIVE SceneText(_, _, _, _, _)
SceneText(parts, layers, lines, finish, n) ==
    IF n > Len(parts) THEN << >>
    ELSE PartText(parts[n], layers, lines, finish)
         \o SceneText(parts, layers, lines, finish, n + 1)

-----------------------------------------------------------------------------
(* guess_camera and write_header_and_camera (povray_pov.py, util_pov.py) *)

\* calls made with one device_dims list
MaxCameraCalls == 2

\* lengths and positions are counted in units of 1/Scale, as are the
\* literals 1.2, 0.8, 1.25, 0.75, 1.75, 0.66, 0.5 and 0.25

\* device_dims lists a caller passes
CameraDims ==
    { <<Real(1), Real(1), Real(2)>>, <<Real(2), Real(1), Real(4)>>,
      <<Real(1), Real(3), Real(1)>> }

CameraCoatingDims == { <<0, 0, 0>>, <<Real(1), Real(1), Real(2)>> }

\* camera_rotate, in degrees
CameraRotations == {0, 60}

\* cos and sin of the angles that occur, rounded to four decimals; only
\* max() of the isosurface branch reads them
CosTable(deg) ==
    CASE deg = 0 -> 10000 [] deg = 60 -> 5000
      [] deg = 0 - 12 -> 9781 [] deg = 48 -> 6691
SinTable(deg) ==
    CASE deg = 0 -> 0 [] deg = 60 -> 8660
      [] deg = 0 - 12 -> 0 - 2079 [] deg = 48 -> 7431

\* the product amp * cos(deg) or amp * sin(deg), kept as its factors
Trig(amp, fn, deg) == [amp |-> amp, fn |-> fn, deg |-> deg]

TrigValue(t) == t.amp * (IF t.fn = "cos" THEN CosTable(t.deg) ELSE SinTable(t.deg))

\* povray_pov.py lines 12-104, util_pov.py lines 15-107: the device_dims list
\* after the call and the three returned lists
GuessCamera(dims, coating, camera_style, camera_rotate, center_arg, isosurface) ==
    LET x_offset == 12000
        z_scale == 10000
        camera_offset0 == Times(x_offset, SeqMax(dims) + Times(8000, SeqMax(coating)))
        light_offset == Times(camera_offset0, 12500)
        z_lookat == IF isosurface = FALSE THEN 0 - 6600 ELSE 2500
        dims_after == IF isosurface = FALSE THEN dims
                      ELSE [dims EXCEPT ![3] = Times(@, 17500)]
        centre == IF isosurface = FALSE THEN center_arg
                  ELSE << Times(5000, dims[1]), Times(5000, dims[2]) >>
        camera_offset == IF isosurface = FALSE THEN camera_offset0
                         ELSE Times(camera_offset0, 7500)
        camera_z == Times(z_scale, dims_after[3] + Times(5000, coating[3]))
        light_x == Trig(dims_after[1] + light_offset, "cos", camera_rotate - 12)
        light_y == Trig(dims_after[2] + light_offset, "sin", camera_rotate - 12)
        light_max == IF TrigValue(light_x) >= TrigValue(light_y) THEN light_x ELSE light_y
    IN  [ dims |-> dims_after,
          camera_position |->
              << Trig(camera_offset + dims_after[1] + centre[1], "cos", camera_rotate),
                 Trig(camera_offset + dims_after[1] + centre[2], "sin", camera_rotate),
                 camera_z >>,
          camera_look_at |->
              << centre[1], centre[2],
                 Times(z_lookat, dims_after[3]) + Times(5000, coating[3]) >>,
          light_position |->
              << IF isosurface = TRUE THEN light_max ELSE light_x,
                 IF isosurface = TRUE THEN light_max ELSE light_y,
                 camera_z + light_offset \div 3 >> ]

\* povray_pov.py lines 194-197, util_pov.py lines 404-407: look_at after the
\* first test
FilledLookAt(dims, coating, camera_loc, look_at, light_loc) ==
    IF look_at = << >> /\ camera_loc # << >> /\ light_loc # << >>
    THEN << 0, 0, Times(0 - 6600, dims[3]) + Times(5000, coating[3]) >>
    ELSE look_at

\* the test of line 200, as if it always held
GuessNeededAlways(camera_loc, look_at, light_loc) == TRUE

\* povray_pov.py line 200, util_pov.py line 410
GuessNeeded(camera_loc, look_at, light_loc) ==
    camera_loc = << >> \/ look_at = << >> \/ light_loc = << >>

\* povray_pov.py lines 206-217, util_pov.py lines 417-423: camera_options
CameraOptions(which, camera_style, viewing_angle) ==
    IF which = "povray_pov"
    THEN IF camera_style = "orthographic"
         THEN << Tok("angle", IF viewing_angle = 0 THEN 60 ELSE viewing_angle, 0) >>
         ELSE IF viewing_angle # 0 THEN << Tok("angle", viewing_angle, 0) >> ELSE << >>
    ELSE IF camera_style = "orthographic" THEN << Tok("angle", 60, 0) >> ELSE << >>

\* povray_pov.py lines 219-254, util_pov.py lines 425-452: the header
HeaderText(which, a, camera_loc, look_at, light_loc) ==
    LET style == IF a.camera_style = "" THEN "perspective" ELSE a.camera_style
    IN  << Kw("#version"), Kw("global_settings"), Kw("{"), Kw("assumed_gamma"), Kw("}") >>
        \o (IF which = "povray_pov" /\ a.use_include_files = TRUE
            THEN << Tok("#include", "colors.inc", 0), Tok("#include", "finish.inc", 0),
                    Tok("#include", "glass.inc", 0), Tok("#include", "metals.inc", 0) >>
            ELSE << >>)
        \o (IF a.bg_color # << >>
            THEN << Kw("background"), Kw("{"), Kw("{"), Tok("color", a.bg_color, 0),
                    Kw("}"), Kw("}") >>
            ELSE << >>)
        \o << Kw("camera"), Kw("{"), Kw(style) >>
        \o CameraOptions(which, style, a.viewing_angle)
        \o << Tok("location", camera_loc, 0), Tok("look_at", look_at, 0),
              Kw("up"), Kw("right"), Kw("sky"), Kw("}"),
              Kw("light_source"), Kw("{"), Tok("position", light_loc, 0), Kw("color") >>
        \o (IF a.shadowless THEN << Kw("shadowless") >> ELSE << >>)
        \o << Kw("}") >>

NoCameraArgs ==
    [coating_dims |-> <<0, 0, 0>>, camera_style |-> "perspective", camera_rotate |-> 0,
     isosurface |-> FALSE, camera_loc |-> << >>, look_at |-> << >>, light_loc |-> << >>,
     viewing_angle |-> 0, bg_color |-> << >>, shadowless |-> FALSE,
     use_include_files |-> FALSE]

\* the arguments of a direct call of guess_camera
GuessCameraArgs ==
    { [NoCameraArgs EXCEPT !.coating_dims = cd, !.camera_style = st,
                           !.camera_rotate = rot, !.isosurface = iso] :
        cd \in CameraCoatingDims, st \in {"perspective", "orthographic", "fisheye"},
        rot \in CameraRotations, iso \in BOOLEAN }

\* the arguments of a call of write_header_and_camera
HeaderArgs(which) ==
    { [g EXCEPT !.camera_loc = cl, !.look_at = la, !.light_loc = ll,
                !.bg_color = bg, !.shadowless = sh, !.viewing_angle = va,
                !.use_include_files = inc] :
        g \in GuessCameraArgs \cup
              { [NoCameraArgs EXCEPT !.camera_style = "", !.camera_rotate = 60] },
        cl \in { << >>, <<Real(5), Real(5), Real(5)>> },
        la \in { << >>, <<0, 0, 0 - Real(1)>> },
        ll \in { << >>, <<Real(8), Real(2), Real(9)>> },
        bg \in { << >>, <<1, 1, 1>> },
        sh \in BOOLEAN,
        va \in (IF which = "povray_pov" THEN {0, 30} ELSE {0}),
        inc \in (IF which = "povray_pov" THEN BOOLEAN ELSE {FALSE}) }

CameraReturn(dims_in, camera_loc, look_at, light_loc, header, guessed) ==
    [dims_in |-> dims_in, camera_loc |-> camera_loc, look_at |-> look_at,
     light_loc |-> light_loc, header |-> header, guessed |-> guessed]

IdleCamera ==
    /\ cam_impl = "none"
    /\ pc_cam = "idle"
    /\ cam_entry = "none"
    /\ cam_dims = <<0, 0, 0>>
    /\ cam_dims0 = <<0, 0, 0>>
    /\ cam_args = NoCameraArgs
    /\ cam_rets = << >>

InitCameraCall ==
    /\ cam_impl \in {"povray_pov", "util_pov"}
    /\ pc_cam = "call"
    /\ cam_dims \in CameraDims
    /\ cam_dims0 = cam_dims
    /\ \/ cam_entry = "guess_camera" /\ cam_args \in GuessCameraArgs
       \/ cam_entry = "write_header_and_camera" /\ cam_args \in HeaderArgs(cam_impl)
    /\ cam_rets = << >>

\* guess_camera called by the user, povray_pov.py lines 12-104
guess_camera ==
    /\ pc_cam = "call"
    /\ cam_entry = "guess_camera"
    /\ LET g == GuessCamera(cam_dims, cam_args.coating_dims, cam_args.camera_style,
                            cam_args.camera_rotate, <<0, 0>>, cam_args.isosurface)
       IN  /\ cam_dims' = g.dims
           /\ cam_rets' = Append(cam_rets,
                  CameraReturn(cam_dims, g.camera_position, g.camera_look_at,
                               g.light_position, << >>, TRUE))
    /\ pc_cam' = "returned"
    /\ UNCHANGED <<cam_impl, cam_entry, cam_dims0, cam_args>>
    /\ UNCHANGED not_camera_vars

\* write_header_and_camera, povray_pov.py lines 107-256 and util_pov.py lines
\* 306-452, when the test of line 200 sends it through guess_camera
HeaderWithGuess ==
    /\ pc_cam = "call"
    /\ cam_entry = "write_header_and_camera"
    /\ LET a == cam_args
           filled == FilledLookAt(cam_dims, a.coating_dims, a.camera_loc, a.look_at,
                                  a.light_loc)
           g == GuessCamera(cam_dims, a.coating_dims, a.camera_style,
                            a.camera_rotate, <<0, 0>>, a.isosurface)
       IN  /\ GuessNeeded(a.camera_loc, filled, a.light_loc)
           /\ cam_dims' = g.dims
           /\ cam_rets' = Append(cam_rets,
                  CameraReturn(cam_dims, g.camera_position, g.camera_look_at,
                               g.light_position,
                               HeaderText(cam_impl, a, g.camera_position,
                                          g.camera_look_at, g.light_position),
                               TRUE))
    /\ pc_cam' = "returned"
    /\ UNCHANGED <<cam_impl, cam_entry, cam_dims0, cam_args>>
    /\ UNCHANGED not_camera_vars

\* write_header_and_camera when the test of line 200 fails
HeaderWithoutGuess ==
    /\ pc_cam = "call"
    /\ cam_entry = "write_header_and_camera"
    /\ LET a == cam_args
           filled == FilledLookAt(cam_dims, a.coating_dims, a.camera_loc, a.look_at,
                                  a.light_loc)
       IN  /\ ~GuessNeeded(a.camera_loc, filled, a.light_loc)
           /\ cam_rets' = Append(cam_rets,
                  CameraReturn(cam_dims, a.camera_loc, filled, a.light_loc,
                               HeaderText(cam_impl, a, a.camera_loc, filled,
                                          a.light_loc),
                               FALSE))
    /\ pc_cam' = "returned"
    /\ UNCHANGED <<cam_impl, cam_entry, cam_dims, cam_dims0, cam_args>>
    /\ UNCHANGED not_camera_vars

\* the caller calls again with the same device_dims list and the same options
CameraAgain ==
    /\ pc_cam = "returned"
    /\ Len(cam_rets) < MaxCameraCalls
    /\ pc_cam' = "call"
    /\ UNCHANGED <<cam_impl, cam_entry, cam_dims, cam_dims0, cam_args, cam_rets>>
    /\ UNCHANGED not_camera_vars

-----------------------------------------------------------------------------
(* Specifications *)

InitMesh == InitMeshCall /\ IdleLayer /\ IdleSlab /\ IdleField /\ IdleSlice /\ IdleRender
    /\ IdlePovFile /\ IdleDevice
    /\ IdleColor /\ IdleCamera

NextMesh == Clamp \/ SortDedup \/ OpenUnion \/ IsoStep \/ CloseUnion

SpecMesh == InitMesh /\ [][NextMesh]_vars

InitLayer == IdleMesh /\ InitLayerCall /\ IdleSlab /\ IdleField /\ IdleSlice /\ IdleRender
    /\ IdlePovFile /\ IdleDevice
    /\ IdleColor /\ IdleCamera

NextLayer == TagLayer \/ WritePovTagLayer \/ LayerFeature \/ LayerEnd

SpecLayer == InitLayer /\ [][NextLayer]_vars

InitSlab == IdleMesh /\ IdleLayer /\ InitSlabCall /\ IdleField /\ IdleSlice /\ IdleRender
    /\ IdlePovFile /\ IdleDevice
    /\ IdleColor /\ IdleCamera

NextSlab == add_slab

SpecSlab == InitSlab /\ [][NextSlab]_vars

InitField == IdleMesh /\ IdleLayer /\ IdleSlab /\ InitFieldCall /\ IdleSlice /\ IdleRender
    /\ IdlePovFile /\ IdleDevice
    /\ IdleColor /\ IdleCamera

NextField == FieldRaise \/ FieldProcess

SpecField == InitField /\ [][NextField]_vars

InitSlice == IdleMesh /\ IdleLayer /\ IdleSlab /\ IdleField /\ InitSliceCall /\ IdleRender
    /\ IdlePovFile /\ IdleDevice
    /\ IdleColor /\ IdleCamera

NextSlice == SliceBox \/ SlicePrism \/ SliceAgain

SpecSlice == InitSlice /\ [][NextSlice]_vars

InitRender ==
    IdleMesh /\ IdleLayer /\ IdleSlab /\ IdleField /\ IdleSlice /\ InitRenderCall
    /\ IdlePovFile /\ IdleDevice
    /\ IdleColor /\ IdleCamera

NextRender ==
    \/ RenderPrepareIni
    \/ RenderPrepareInline
    \/ RenderSystem
    \/ RenderSkipSystem
    \/ RenderReport

SpecRender == InitRender /\ [][NextRender]_vars

InitPovFile ==
    IdleMesh /\ IdleLayer /\ IdleSlab /\ IdleField /\ IdleSlice /\ IdleRender
    /\ InitPovFileCall /\ IdleDevice
    /\ IdleColor /\ IdleCamera

NextPovFile == WritePovFilePlain \/ WritePovFileFix

SpecPovFile == InitPovFile /\ [][NextPovFile]_vars

InitDevice ==
    IdleMesh /\ IdleLayer /\ IdleSlab /\ IdleField /\ IdleSlice /\ IdleRender
    /\ IdlePovFile /\ InitDeviceCall
    /\ IdleColor /\ IdleCamera

NextDevice ==
    \/ DeviceExtendColors
    \/ DeviceOpenUnitCell
    \/ DeviceSkipLayer
    \/ DeviceLayerCall
    \/ TagLayer
    \/ LayerFeature
    \/ LayerEnd
    \/ DeviceLayerReturn
    \/ DeviceLayerRaise
    \/ DeviceReplicate
    \/ DeviceCoating
    \/ DeviceSubstrate
    \/ DeviceCapAndReturn

SpecDevice == InitDevice /\ [][NextDevice]_vars

\* create_device runs to its end or to an exception: a step that can change
\* the state is eventually taken
SpecDeviceFair == SpecDevice /\ WF_vars(NextDevice)

InitFinish ==
    IdleMesh /\ IdleLayer /\ IdleSlab /\ IdleField /\ IdleSlice /\ IdleRender
    /\ IdlePovFile /\ IdleDevice /\ InitColorCalls /\ IdleCamera

NextFinish == color_and_finish

SpecFinish == InitFinish /\ [][NextFinish]_vars

InitCamera ==
    IdleMesh /\ IdleLayer /\ IdleSlab /\ IdleField /\ IdleSlice /\ IdleRender
    /\ IdlePovFile /\ IdleDevice /\ IdleColor /\ InitCameraCall

NextCamera == guess_camera \/ HeaderWithGuess \/ HeaderWithoutGuess \/ CameraAgain

SpecCamera == InitCamera /\ [][NextCamera]_vars

Init ==
    \/ InitMesh \/ InitLayer \/ InitSlab \/ InitField \/ InitSlice
    \/ InitRender \/ InitPovFile \/ InitDevice \/ InitFinish \/ InitCamera

Next ==
    \/ NextMesh \/ NextLayer \/ NextSlab \/ NextField \/ NextSlice
    \/ NextRender \/ NextPovFile \/ NextDevice \/ NextFinish \/ NextCamera

Spec == Init /\ [][Next]_vars

-----------------------------------------------------------------------------
(* Properties of create_mesh2 *)

InsideRange(x) == field_min < x /\ x < field_max

MeshBlocks == SelectSeq(mesh, LAMBDA t : t.tok = "mesh2")

\* C1: every cutoff strictly inside (field_min, field_max) keeps exactly the
\* value the caller gave: the clamping loop leaves it alone, it is an element
\* of the isovalue list that is iterated, and when the call completes it has
\* been handed to marching cubes with that value.
C1_InRangeCutoffKept ==
    \A i \in DOMAIN cutoffs0 :
        InsideRange(cutoffs0[i]) =>
            /\ pc_mesh # "clamp" => caller_cutoffs[i] = cutoffs0[i]
            /\ pc_mesh \notin {"clamp", "sort"} => cutoffs0[i] \in ToSet(cutoffs)
            /\ pc_mesh = "done" => cutoffs0[i] \in ToSet(mc_levels)

C1_Witness ==
    /\ pc_mesh = "done"
    /\ \E i, j \in DOMAIN cutoffs0 :
          /\ InsideRange(cutoffs0[i])
          /\ ~InsideRange(cutoffs0[j])
          /\ cutoffs0[i] \in ToSet(mc_levels)

\* C2: every cutoff at or beyond an extremum is replaced by a value strictly
\* inside (field_min, field_max), whatever the sign of the extrema, and so
\* every level handed to marching cubes is strictly inside the range.
C2_ClampedStrictlyInside ==
    /\ pc_mesh # "clamp" =>
          \A i \in DOMAIN cutoffs0 :
              ~InsideRange(cutoffs0[i]) => InsideRange(caller_cutoffs[i])
    /\ \A k \in DOMAIN mc_levels : InsideRange(mc_levels[k])

\* C3: the isovalue list that is iterated is strictly ascending, holds no
\* value twice and holds exactly the distinct post-clamp values; the loop
\* walks it in that order.
C3_SortedDistinctCutoffs ==
    pc_mesh \notin {"clamp", "sort"} =>
        /\ \A i, j \in DOMAIN cutoffs : i < j => cutoffs[i] < cutoffs[j]
        /\ ToSet(cutoffs) = ToSet(caller_cutoffs)
        /\ Len(cutoffs) = Cardinality(ToSet(caller_cutoffs))
        /\ Len(mc_levels) <= Len(cutoffs)
        /\ \A k \in DOMAIN mc_levels : mc_levels[k] = cutoffs[k]

C3_Witness ==
    /\ pc_mesh = "done"
    /\ Len(cutoffs) >= 2
    /\ \E i, j \in DOMAIN cutoffs0 :
          /\ cutoffs0[i] # cutoffs0[j]
          /\ caller_cutoffs[i] = caller_cutoffs[j]
    /\ \E i, j \in DOMAIN cutoffs0 : i < j /\ cutoffs0[i] > cutoffs0[j]

\* C4: every call of create_mesh2 ends with a mesh that holds exactly one
\* mesh2 block per surviving cutoff, in ascending cutoff order, wrapped in a
\* union if and only if more than one cutoff survived.
C4_OneBlockPerSurvivingCutoff ==
    pc_mesh \in {"done", "error"} =>
        /\ pc_mesh = "done"
        /\ Len(MeshBlocks) = Len(cutoffs)
        /\ \A k \in DOMAIN cutoffs : MeshBlocks[k].v = cutoffs[k]
        /\ (Len(cutoffs) > 1) <=>
              (/\ Len(mesh) >= 2
               /\ mesh[1].tok = "union"
               /\ mesh[Len(mesh)].tok = "end_union")

-----------------------------------------------------------------------------
(* Properties of create_device_layer and of the layer tagging *)

Tagged == pc_layer \notin {"idle", "tag"}

\* a vacuum shape with no extent: nothing to subtract
ZeroDimension(sh) ==
    \/ sh.shape = "circle" /\ sh.radius = 0
    \/ sh.shape \in {"ellipse", "rectangle"} /\ sh.hw.x = 0 /\ sh.hw.y = 0
    \/ sh.shape = "polygon" /\ Len(sh.vertices) < 3

\* C5: no step of the layer code (update_device_dims alone, a feature, the
\* end of the layer) lowers device_dims[0] or device_dims[1].
C5_FootprintMonotone ==
    [][/\ device_dims'[1] >= device_dims[1]
       /\ device_dims'[2] >= device_dims[2]]_vars

C5_Witness ==
    /\ pc_layer = "done"
    /\ dims0 = <<3, 3, 2>>
    /\ Len(device_layer) >= 3
    /\ device_dims[1] = 3
    /\ device_dims[2] = 3

\* C6: when create_device_layer has processed a layer, device_dims[2] is its
\* value at the call plus the layer's thickness, whatever features it holds.
C6_LayerAddsThickness ==
    pc_layer = "done" => device_dims[3] = dims0[3] + thickness

C6_Witness ==
    /\ pc_layer = "done"
    /\ dims0[3] = 2
    /\ thickness = 1
    /\ device_dims[3] = 3
    /\ \E i \in DOMAIN device_layer : device_layer[i].feat = "silo"
    /\ \E i \in DOMAIN layer_type : layer_type[i] = "Vacuum"
    /\ \E i \in DOMAIN layer_type : layer_type[i] = "triangle"

\* C7 as stated: a non-vacuum shape immediately followed by a vacuum shape
\* is tagged "silo", and the vacuum positions keep the tag "Vacuum".
C7_SolidBeforeVacuumIsSilo ==
    Tagged =>
        /\ \A k \in 1..(Len(shapes) - 1) :
              ~IsVacuum(shapes[k]) /\ IsVacuum(shapes[k + 1])
                  => layer_type[k] = "silo"
        /\ \A k \in DOMAIN shapes :
              IsVacuum(shapes[k]) => layer_type[k] = "Vacuum"

\* C7 amended: a non-vacuum shape immediately followed by a vacuum shape of
\* non-zero dimension is tagged "silo", and the vacuum positions keep the
\* tag "Vacuum".
C7_SolidBeforeRealVacuumIsSilo ==
    Tagged =>
        /\ \A k \in 1..(Len(shapes) - 1) :
              /\ ~IsVacuum(shapes[k])
              /\ IsVacuum(shapes[k + 1])
              /\ ~ZeroDimension(shapes[k + 1])
              => layer_type[k] = "silo"
        /\ \A k \in DOMAIN shapes :
              IsVacuum(shapes[k]) => layer_type[k] = "Vacuum"

C7_Witness ==
    /\ impl = "util_shapes"
    /\ Tagged
    /\ Len(shapes) = 3
    /\ ~IsVacuum(shapes[1])
    /\ IsVacuum(shapes[2]) /\ ~ZeroDimension(shapes[2])
    /\ IsVacuum(shapes[3])
    /\ layer_type = <<"silo", "Vacuum", "Vacuum">>

\* C8: a tag "silo" stands only at a non-vacuum shape that is immediately
\* followed by a vacuum shape; so the last shape, a shape before a solid, a
\* shape of a layer without vacuum and a vacuum shape are never "silo".
C8_SiloOnlyBeforeVacuum ==
    Tagged =>
        /\ Len(layer_type) = Len(shapes)
        /\ \A k \in DOMAIN layer_type :
              layer_type[k] = "silo" =>
                  /\ ~IsVacuum(shapes[k])
                  /\ k < Len(shapes)
                  /\ IsVacuum(shapes[k + 1])

C8_Witness ==
    /\ Tagged
    /\ Len(shapes) = 3
    /\ IsVacuum(shapes[1]) /\ IsVacuum(shapes[2]) /\ ~ZeroDimension(shapes[2])
    /\ ~IsVacuum(shapes[3])
    /\ \A k \in DOMAIN layer_type : layer_type[k] # "silo"

SupportedKinds == {"circle", "ellipse", "rectangle", "polygon"}

\* the number of vacuum shapes that follow position k without interruption
RECURSIVE VacuumRun(_)
VacuumRun(k) ==
    IF k + 1 < Len(shapes) /\ IsVacuum(At(shapes, k + 1))
    THEN 1 + VacuumRun(k + 1) ELSE 0

\* the solid at k and the vacuum shapes of its run are of supported kinds
SupportedSilo(k) ==
    \A j \in k..(k + VacuumRun(k)) : At(shapes, j).shape \in SupportedKinds

SiloFeatures == { i \in DOMAIN device_layer : device_layer[i].feat = "silo" }

\* C16: for a silo at position k made of supported shapes,
\* write_silo_feature emits one difference with the solid of position k and
\* exactly one hole for each vacuum shape of the run k+1, k+2, ..., of that
\* shape's kind; it does so for every kind of solid.
C16_OneHolePerVacuumOfTheRun ==
    (impl = "util_shapes" /\ Tagged) =>
        \A k \in 0..(Len(shapes) - 1) :
            (layer_type[k + 1] = "silo" /\ SupportedSilo(k)) =>
                /\ ~( /\ pc_layer = "error"
                      /\ k_layer = k
                      /\ ~add_lines
                      /\ ~ColorRaises(At(shapes, k).material,
                                      use_default_colors, n_colors, c) )
                /\ \A i \in SiloFeatures :
                       device_layer[i].k = k =>
                           /\ Len(device_layer[i].holes) = VacuumRun(k)
                           /\ \A h \in 1..VacuumRun(k) :
                                  device_layer[i].holes[h].shape =
                                      At(shapes, k + h).shape

\* C17: every hole of a silo is built from the center and dimensions of the
\* vacuum shape at its own position j, not from the solid at k, and its
\* z-extent is end2, 0.001 beyond both ends of the solid.
C17_HoleUsesItsOwnShape ==
    \A i \in SiloFeatures :
        \A h \in DOMAIN device_layer[i].holes :
            /\ device_layer[i].holes[h].src = device_layer[i].k + h
            /\ device_layer[i].holes[h].ends = "end2"

\* C18: in create_device_layer a solid shape whose next shape is a vacuum
\* of zero dimension (circle of radius 0, ellipse or rectangle with both
\* halfwidths 0, polygon with fewer than 3 vertices) is not tagged "silo"
\* and keeps its own shape as tag, for every kind of vacuum shape.
C18_ZeroVacuumIsNoSilo ==
    (impl = "util_shapes" /\ Tagged) =>
        \A k \in 1..(Len(shapes) - 1) :
            ( /\ ~IsVacuum(shapes[k])
              /\ IsVacuum(shapes[k + 1])
              /\ ZeroDimension(shapes[k + 1]) )
                => layer_type[k] = shapes[k].shape

-----------------------------------------------------------------------------
(* Properties of add_slab *)

\* C9: the halfwidth returned by add_slab is half the sum of the two lattice
\* vectors, component by component, for every layer_type, thickness and
\* device_dims; the lattice vectors themselves are left as they were.
C9_SlabHalfwidth ==
    pc_slab = "done" =>
        /\ 2 * slab_halfwidth[1] = lattice_vecs[1][1] + lattice_vecs[2][1]
        /\ 2 * slab_halfwidth[2] = lattice_vecs[1][2] + lattice_vecs[2][2]

C9_Witness ==
    /\ pc_slab = "done"
    /\ slab_type = "isosurface"
    /\ lattice_vecs[1] # lattice_vecs[2]
    /\ lattice_vecs[2][1] > 0
    /\ slab_halfwidth[1] > 0
    /\ slab_translate # <<0, 0, 0>>

-----------------------------------------------------------------------------
(* Properties of process_field_array *)

\* C10: process_field_array raises RuntimeError exactly when the input does
\* not have 5 dimensions; then nothing is returned; a 5-D input is returned
\* without error; the caller's array is never modified.
C10_RaisesIffNot5D ==
    pc_field \in {"raised", "returned"} =>
        /\ (field_err = "RuntimeError") <=> (Len(field_array0.shape) # 5)
        /\ field_err = "RuntimeError" =>
              (pc_field = "raised" /\ field_ret = NoReturn)
        /\ Len(field_array0.shape) = 5 =>
              (pc_field = "returned" /\ field_err = "")
        /\ field_array = field_array0

C10_Witness ==
    /\ pc_field = "raised"
    /\ Len(field_array0.shape) = 6
    /\ field_err = "RuntimeError"

\* C15: for a 5-D input of shape (nz, ny, nx, k, c) process_field_array
\* returns the dimensions (nx, ny, nz) and an array out with
\* out[x, y, z] = in[nz-1-z, y, x] (center False) or
\* out[(x + nx//2) mod nx, (y + ny//2) mod ny, z] = in[nz-1-z, y, x] (center
\* True); out is a permutation of the input elements and the last two axes
\* are untouched.
C15_ReorientedPermutation ==
    pc_field = "returned" =>
        LET in  == field_array0
            out == field_ret.arr
            nz  == in.shape[1]
            ny  == in.shape[2]
            nx  == in.shape[3]
        IN  /\ <<field_ret.nx, field_ret.ny, field_ret.nz>> = <<nx, ny, nz>>
            /\ out.shape = <<nx, ny, nz, in.shape[4], in.shape[5]>>
            /\ DOMAIN out.data = Indices(out.shape)
            /\ \A idx \in Indices(in.shape) :
                   LET x == idx[3]
                       y == idx[2]
                       z == nz - 1 - idx[1]
                       tx == IF center THEN (x + nx \div 2) % nx ELSE x
                       ty == IF center THEN (y + ny \div 2) % ny ELSE y
                   IN  out.data[<<tx, ty, z, idx[4], idx[5]>>] = in.data[idx]
            /\ { out.data[idx] : idx \in DOMAIN out.data } =
                   { in.data[idx] : idx \in DOMAIN in.data }
            /\ Cardinality(DOMAIN out.data) = Cardinality(DOMAIN in.data)

C15_Witness ==
    /\ pc_field = "returned"
    /\ center
    /\ field_array0.shape = <<2, 3, 3, 1, 2>>
    /\ field_ret.arr.data[<<1, 1, 0, 0, 1>>] = <<1, 0, 0, 0, 1>>

-----------------------------------------------------------------------------
(* Properties of slice_isosurface *)

LastSlice == slice_rets[Len(slice_rets)]

\* the part of a returned text between the mesh and the closing brace
SlicePrimitive(text) == SubSeq(text, Len(slice_mesh) + 3, Len(text) - 1)

Words(text) == { text[i].tok : i \in DOMAIN text }

CountWord(text, words) == Cardinality({ i \in DOMAIN text : text[i].tok \in words })

\* C11: every text slice_isosurface returns is
\* intersection { <the mesh argument, unchanged, in one piece> <one box or
\* prism> }, and that primitive carries the keyword inverse exactly when
\* subtract_box is True.
C11_SliceWrapsMeshAndPrimitive ==
    \A r \in DOMAIN slice_rets :
        ~slice_rets[r].err =>
            LET text == slice_rets[r].text
                prim == SlicePrimitive(text)
            IN  /\ Len(text) >= Len(slice_mesh) + 6
                /\ SubSeq(text, 1, 2) = << Kw("intersection"), Kw("{") >>
                /\ SubSeq(text, 3, Len(slice_mesh) + 2) = slice_mesh
                /\ text[Len(text)] = Kw("}")
                /\ prim[1].tok \in {"box", "prism"}
                /\ prim[2] = Kw("{")
                /\ prim[Len(prim)] = Kw("}")
                /\ CountWord(prim, {"box", "prism"}) = 1
                /\ CountWord(prim, {"{"}) = 1
                /\ CountWord(prim, {"}"}) = 1
                /\ CountWord(prim, {"inverse"}) = (IF subtract_box THEN 1 ELSE 0)

C11_Witness ==
    /\ Len(slice_rets) >= 1
    /\ ~LastSlice.err
    /\ subtract_box
    /\ slice_impl = "povray_iso"
    /\ Len(slice_mesh) > 1
    /\ "inverse" \in Words(SlicePrimitive(LastSlice.text))

\* the bounds of the prism in a returned text, one [lower, upper] pair per
\* axis: the sweep limits and the first and third corner point
PrismBounds(text) ==
    LET p == Len(slice_mesh) + 2
    IN  << <<text[p + 5].v, text[p + 6].v>>,
           <<text[p + 8].v, text[p + 12].v>>,
           <<text[p + 9].v, text[p + 13].v>> >>

\* C25: a call of povray_iso.slice_isosurface, with the list cut_at as it is
\* on entry, ends in an assertion error exactly when some fraction of the list
\* is below 0 or above 1; otherwise the prism bounds on axis i are
\* lower*n[i] and upper*n[i] with lower <= upper, where lower and upper are
\* the smaller and the larger element of cut_at[i], 0 replaced by -0.001 and
\* 1 by 1.001.
C25_CutRegionValidated ==
    [][ (pc_slice = "call" /\ slice_impl = "povray_iso") =>
          LET lower(i) == IF cut_at[i][1] <= cut_at[i][2]
                          THEN cut_at[i][1] ELSE cut_at[i][2]
              upper(i) == IF cut_at[i][1] <= cut_at[i][2]
                          THEN cut_at[i][2] ELSE cut_at[i][1]
              outside == \E i \in 1..3 :
                             \/ lower(i) < Fraction(0)
                             \/ upper(i) > Fraction(1000)
              replaced(x) == IF x = Fraction(0) THEN 0 - Fraction(1)
                             ELSE IF x = Fraction(1000) THEN Fraction(1001)
                             ELSE x
              ret == slice_rets'[Len(slice_rets')]
          IN  /\ Len(slice_rets') = Len(slice_rets) + 1
              /\ ret.err <=> outside
              /\ ~outside =>
                   \A i \in 1..3 :
                       /\ PrismBounds(ret.text)[i]
                            = << replaced(lower(i)) * slice_n[i],
                                 replaced(upper(i)) * slice_n[i] >>
                       /\ PrismBounds(ret.text)[i][1] <= PrismBounds(ret.text)[i][2]
      ]_vars

\* a first call whose pair for the x axis is given as [1, 0]: it is ordered
\* and both limits are overshot before scaling by n[0] = 2
C25_Witness ==
    /\ slice_impl = "povray_iso"
    /\ pc_slice = "returned"
    /\ Len(slice_rets) = 1
    /\ cut_at0[1] = <<Fraction(1000), Fraction(0)>>
    /\ slice_n[1] = 2
    /\ ~LastSlice.err
    /\ PrismBounds(LastSlice.text)[1] = <<0 - 2, 2002>>

\* C26: povray_iso.slice_isosurface keeps no state between calls: when the
\* first call with a cut_at list succeeds, every later call with the same
\* arguments succeeds and returns the same text, and the list still holds the
\* values it held before the first call.
C26_NoStateBetweenCalls ==
    (slice_impl = "povray_iso" /\ Len(slice_rets) >= 1 /\ ~slice_rets[1].err) =>
        /\ cut_at = cut_at0
        /\ \A r \in DOMAIN slice_rets : slice_rets[r] = slice_rets[1]

-----------------------------------------------------------------------------
(* Properties of render_pov *)

\* the extensions and format letters of the documentation
DocumentedExtensions ==
    { [ext |-> <<".", "p", "n", "g">>, type |-> "N"],
      [ext |-> <<".", "b", "m", "p">>, type |-> "B"],
      [ext |-> <<".", "r", "l", "e">>, type |-> "C"],
      [ext |-> <<".", "e", "x", "r">>, type |-> "E"],
      [ext |-> <<".", "h", "d", "r">>, type |-> "H"],
      [ext |-> <<".", "j", "p", "g">>, type |-> "J"],
      [ext |-> <<".", "j", "p", "e", "g">>, type |-> "J"],
      [ext |-> <<".", "p", "p", "m">>, type |-> "P"],
      [ext |-> <<".", "t", "g", "a">>, type |-> "T"] }

EndsWith(name, ext) ==
    /\ Len(name) >= Len(ext)
    /\ SubSeq(name, Len(name) - Len(ext) + 1, Len(name)) = ext

HasWord(text, word) == \E i \in DOMAIN text : text[i].w = word

\* C12: render_pov of povray_pov chooses the format from the extension of
\* image_name only: a name ending in one of the documented extensions gets
\* that extension's letter and stays unchanged, every other name gets .png
\* appended and the png format; +F is written exactly when the format is
\* not png.
C12_FormatFromExtensionOnly ==
    (render_impl = "povray_pov" /\ pc_render \notin {"idle", "call"}) =>
        /\ IF \E e \in DocumentedExtensions : EndsWith(image_name0, e.ext)
           THEN /\ \A e \in DocumentedExtensions :
                       EndsWith(image_name0, e.ext) => use_type = e.type
                /\ image_name = image_name0
           ELSE /\ use_type = "N"
                /\ image_name = image_name0 \o DotPng
        /\ HasWord(ini_file.lines, "+F") <=> use_type # "N"

\* the options of the call, as words of the command or lines of the .ini
SelectedOptions(o) ==
    { IF render_impl = "povray_pov"
      THEN (IF o.display THEN "+D" ELSE "-D")
      ELSE (IF o.display THEN "Display=on" ELSE "Display=off") }
    \cup {"+H", "+W"}
    \cup (IF o.transparent
          THEN {IF render_impl = "povray_pov" THEN "+UA" ELSE "+ua"} ELSE {})
    \cup (IF o.antialias THEN {"+A"} ELSE {})
    \cup (IF o.num_threads # 0 THEN {"+WT"} ELSE {})
    \cup (IF o.render_quality # 9 THEN {"+Q"} ELSE {})

OptionWords == {"+D", "-D", "Display=on", "Display=off", "+H", "+W", "+UA",
                "+ua", "+A", "+WT", "+Q"}

\* the words of the reported command together with the .ini file it names
ReportedWords ==
    { reported[i].w : i \in DOMAIN reported }
    \cup (IF HasWord(reported, "povray") /\ reported[1].s = ini_file.name
          THEN { ini_file.lines[i].w : i \in DOMAIN ini_file.lines }
          ELSE {})

\* C14: render_pov runs the renderer exactly when render is True; whether
\* it renders or not it prints the complete command (the one given to the
\* shell) with the selected options; the viewer is in the command only when
\* open_image is True, after &&, so that the shell runs it only after the
\* renderer has succeeded.
C14_RenderOnlyOnRequestAndReport ==
    /\ shell_log # << >> => render_opts.render = TRUE
    /\ \A i \in DOMAIN shell_log :
           shell_log[i].program = "eog" =>
               i = 2 /\ shell_log[1] = Ran("povray", TRUE)
    /\ pc_render = "returned" =>
           /\ (\E i \in DOMAIN shell_log : shell_log[i].program = "povray")
                  <=> render_opts.render = TRUE
           /\ reported = command
           /\ Len(reported) >= 1
           /\ reported[1].w = "povray"
           /\ ReportedWords \cap OptionWords = SelectedOptions(render_opts)
           /\ HasWord(reported, "eog") <=> render_opts.open_image = TRUE
           /\ \A i \in DOMAIN reported :
                  reported[i].w = "eog" =>
                      /\ i = Len(reported)
                      /\ reported[i - 1].w = "&&"
                      /\ reported[i].s = image_name

C14_Witness ==
    /\ pc_render = "returned"
    /\ render_opts.render
    /\ render_opts.open_image
    /\ shell_log = << Ran("povray", TRUE), Ran("eog", TRUE) >>
    /\ HasWord(reported, "&&")

-----------------------------------------------------------------------------
(* Properties of write_pov_file *)

\* C13: after write_pov_file the file pov_name holds the scene string, with
\* the four #include lines added to that same file when the string uses
\* include-file identifiers without any #include line; no other file is
\* modified.
C13_IncludesAddedToSameFile ==
    pc_povfile = "returned" =>
        /\ files[povfile_name].exists
        /\ files[povfile_name].lines =
               (IF NeedsIncludes(pov_string) THEN SedInsert(pov_string)
                ELSE pov_string)
        /\ \A f \in FileNames \ {povfile_name} : files[f] = files0[f]

-----------------------------------------------------------------------------
(* Properties of create_device *)

\* the sum of the thicknesses of the layers 0 .. n-1; with only_processed,
\* of those among them that have shapes
RECURSIVE ThicknessSum(_, _)
ThicknessSum(n, only_processed) ==
    IF n = 0 THEN 0
    ELSE ThicknessSum(n - 1, only_processed)
         + (IF only_processed /\ ~dev_layers[n].has_shapes THEN 0
            ELSE dev_layers[n].thickness)

\* C19: the features of layer i get the z-extent [-Z_i, -Z_i - t_i], Z_i
\* being the sum of the thicknesses of all device layers before layer i, so
\* that consecutive layers are contiguous.
C19_LayersStackedContiguously ==
    \A e \in DOMAIN layer_ends :
        LET i == layer_ends[e].i
            Z == ThicknessSum(i, FALSE)
        IN  layer_ends[e].end =
                << 0 - Real(Z), 0 - Real(Z) - Real(dev_layers[i + 1].thickness) >>

\* C20: the device_dims that create_device returns has z equal to the sum of
\* the thicknesses of the processed layers plus max(1, substrate thickness).
C20_ReturnedHeightIsStackedHeight ==
    pc_device = "returned" =>
        dev_dims[3] = ThicknessSum(Len(dev_layers), TRUE)
                      + Max(1, sub_thickness)

\* the object { UnitCell translate ... } parts of the device string
UnitCellCopies == SelectSeq(device, LAMBDA p : p.part = "object")

\* C24: create_device writes one copy of the unit cell per index pair, that
\* is num_UC_x * num_UC_y copies; their translations are those of the index
\* offsets p in -adj_x .. num_UC_x - 1 - adj_x and q in -adj_y ..
\* num_UC_y - 1 - adj_y with adj = floor((num_UC - 1) / 2), intervals that
\* contain 0; exactly one copy has zero translation and no two copies have the
\* same translation (the lattice vectors of the model are linearly
\* independent).
C24_OneCopyPerIndexPair ==
    pc_device \in {"coating", "substrate", "cap", "returned"} =>
        LET copies == UnitCellCopies
            adj_x == (num_UC[1] - 1) \div 2
            adj_y == (num_UC[2] - 1) \div 2
            offsets_x == (0 - adj_x)..(num_UC[1] - 1 - adj_x)
            offsets_y == (0 - adj_y)..(num_UC[2] - 1 - adj_y)
            a == dev_lattice[1]
            b == dev_lattice[2]
        IN  /\ Len(copies) = num_UC[1] * num_UC[2]
            /\ 0 \in offsets_x /\ 0 \in offsets_y
            /\ { copies[n].info : n \in DOMAIN copies }
                 = { << p * a[1] - q * b[1], q * b[2] - p * a[2], 0 >> :
                        p \in offsets_x, q \in offsets_y }
            /\ Cardinality({ n \in DOMAIN copies : copies[n].info = <<0, 0, 0>> }) = 1
            /\ \A m, n \in DOMAIN copies : m # n => copies[m].info # copies[n].info

\* 2 x 3 unit cells on the oblique lattice: six copies
C24_Witness ==
    /\ pc_device = "returned"
    /\ num_UC = <<2, 3>>
    /\ dev_lattice[1][2] # 0
    /\ Len(UnitCellCopies) = 6

\* C29: with use_default_colors False the loop that extends custom_colors
\* ends, and it ends with len(custom_colors) >= 3 * number_of_layers.
C29_ColourLoopTerminates ==
    /\ [](pc_device \in {"layers", "in_layer", "coating", "substrate", "cap", "returned"}
            /\ ~dev_colors.udc
          => dev_colors.n >= 3 * Len(dev_layers))
    /\ (pc_device = "colors") ~> (pc_device # "colors")

\* one pass over a text from token n on: depth is the number of braces open
\* before token n; the text is well nested when the depth never falls below 0
\* and ends at 0
RECURSIVE NestedFrom(_, _, _)
NestedFrom(text, n, depth) ==
    IF n > Len(text) THEN depth = 0
    ELSE LET after == depth + (IF text[n].tok = "{" THEN 1
                               ELSE IF text[n].tok = "}" THEN 0 - 1 ELSE 0)
         IN  after >= 0 /\ NestedFrom(text, n + 1, after)

WellNested(text) == NestedFrom(text, 1, 0)

\* C30: the device string create_device returns is well nested, with every
\* finish: no prefix closes more braces than it opens and the whole text
\* closes as many as it opens.
C30_SceneWellNested ==
    pc_device = "returned" =>
        \A finish \in Finishes :
            WellNested(SceneText(device, dev_layers, dev_add_lines, finish, 1))

\* a returned device with accent lines, a coating, a layer background and a
\* silo with a hole
C30_Witness ==
    /\ pc_device = "returned"
    /\ dev_add_lines
    /\ coating_layers # << >>
    /\ \E n \in DOMAIN device : device[n].part = "background"
    /\ \E n \in DOMAIN device :
          /\ device[n].part = "layer"
          /\ \E m \in DOMAIN device[n].info :
                /\ device[n].info[m].feat = "silo"
                /\ Len(device[n].info[m].holes) > 0

-----------------------------------------------------------------------------
(* Properties of write_header_and_camera and guess_camera *)

\* the vector a header carries after the given keyword
HeaderVector(header, word) ==
    header[CHOOSE i \in DOMAIN header : header[i].tok = word].v

C28_DeviceDimsUntouched ==
    /\ cam_dims = cam_dims0
    /\ \A r \in DOMAIN cam_rets :
           /\ cam_rets[r].camera_loc = cam_rets[1].camera_loc
           /\ cam_rets[r].look_at = cam_rets[1].look_at
           /\ cam_rets[r].light_loc = cam_rets[1].light_loc

-----------------------------------------------------------------------------
(* Properties of color_and_finish *)

\* the filter and the transmit value the caller gave with the colour
GivenFilter(color) == IF Len(color) >= 4 THEN color[4] ELSE 0
GivenTransmit(color) == IF Len(color) >= 5 THEN color[5] ELSE 0

\* C22: the pigment color_and_finish writes is <r, g, b, filter, transmit>:
\* with the finishes SiO2, glass, irid and translucent the 4th component is
\* 0.98, 0.95, 0.7 and 0.50 and the 5th is 0, 0, 0 and 0.02; with every other
\* finish the 4th and 5th components are the caller's filter and transmit.
C22_PigmentFilterThenTransmit ==
    \A r \in DOMAIN color_rets :
        LET ret == color_rets[r]
            f == IF ret.use_finish = "material" THEN ret.material ELSE ret.use_finish
        IN  ~ret.err =>
              /\ Len(ret.pigment) = 5
              /\ SubSeq(ret.pigment, 1, 3) = SubSeq(ret.given, 1, 3)
              /\ ret.pigment[4] =
                   (CASE f = "SiO2" -> Decimal(9800) [] f = "glass" -> Decimal(9500)
                      [] f = "irid" -> Decimal(7000) [] f = "translucent" -> Decimal(5000)
                      [] OTHER -> GivenFilter(ret.given))
              /\ ret.pigment[5] =
                   (CASE f \in {"SiO2", "glass", "irid"} -> 0
                      [] f = "translucent" -> Decimal(200)
                      [] OTHER -> GivenTransmit(ret.given))

\* C23: for a colour of 3, 4 or 5 elements color_and_finish raises no error
\* and returns a pigment of five components, with any finish.
C23_ThreeToFiveElementsAccepted ==
    \A r \in DOMAIN color_rets :
        Len(color_rets[r].given) \in {3, 4, 5} =>
            /\ ~color_rets[r].err
            /\ Len(color_rets[r].pigment) = 5

\* C27: color_and_finish leaves default_color_dict and the custom_color list
\* unchanged, and a later call with the same material, colour source and
\* finish returns the same pigment as the first such call.
C27_ColoursLeftUnchanged ==
    /\ color_dict = color_dict0
    /\ custom_color = custom_color0
    /\ \A r1, r2 \in DOMAIN color_rets :
           ( /\ r1 < r2
             /\ color_rets[r1].material = color_rets[r2].material
             /\ color_rets[r1].use_default_colors = color_rets[r2].use_default_colors
             /\ color_rets[r1].use_finish = color_rets[r2].use_finish )
           => /\ color_rets[r1].err = color_rets[r2].err
              /\ color_rets[r1].pigment = color_rets[r2].pigment

=============================================================================
